---- MODULE Spec2Model ----
(***************************************************************************)
(* A model of the market-research assistant: the dialog manager            *)
(* (market_research/dialog.py), the research engine                        *)
(* (market_research/research.py) and the cache tool                        *)
(* (market_research/agents.py).                                            *)
(*                                                                         *)
(* Texts are sequences of one-character strings, so that the string        *)
(* operations of the code (lower, strip, split, "in", re.search with \b,   *)
(* re.sub) are computed and not assumed.                                   *)
(***************************************************************************)
EXTENDS Integers, Sequences, FiniteSets, TLC

(***************************************************************************)
(* Python string operations                                                *)
(***************************************************************************)
UpperLetters ==
    <<"A","B","C","D","E","F","G","H","I","J","K","L","M",
      "N","O","P","Q","R","S","T","U","V","W","X","Y","Z">>

LowerLetters ==
    <<"a","b","c","d","e","f","g","h","i","j","k","l","m",
      "n","o","p","q","r","s","t","u","v","w","x","y","z">>

Digits == {"0","1","2","3","4","5","6","7","8","9"}

\* str.isspace for one character
IsSpace(c) == c \in {" ", "\t", "\n", "\r"}

\* the regular expression class \w
IsWordChar(c) ==
    \/ \E i \in 1..26 : c = UpperLetters[i] \/ c = LowerLetters[i]
    \/ c \in Digits
    \/ c = "_"

LowerChar(c) ==
    IF \E i \in 1..26 : c = UpperLetters[i]
    THEN LowerLetters[CHOOSE i \in 1..26 : c = UpperLetters[i]]
    ELSE c

\* str.lower()
Lower(s) == [i \in 1..Len(s) |-> LowerChar(s[i])]

\* str.strip()
Strip(s) ==
    LET keep == {i \in 1..Len(s) : ~IsSpace(s[i])}
    IN  IF keep = {} THEN <<>>
        ELSE LET lo == CHOOSE i \in keep : \A j \in keep : i <= j
                 hi == CHOOSE i \in keep : \A j \in keep : j <= i
             IN  SubSeq(s, lo, hi)

\* len(s.split()): the number of maximal runs of non-space characters
TokenCount(s) ==
    Cardinality({i \in 1..Len(s) :
                    /\ ~IsSpace(s[i])
                    /\ (i = 1 \/ IsSpace(s[i - 1]))})

\* s[i:i+len(kw)] == kw
MatchAt(kw, s, i) ==
    /\ i >= 1
    /\ i + Len(kw) - 1 <= Len(s)
    /\ SubSeq(s, i, i + Len(kw) - 1) = kw

\* kw in s
Contains(kw, s) == \E i \in 1..Len(s) + 1 : MatchAt(kw, s, i)

\* any(kw in s for kw in kws)
ContainsAny(kws, s) == \E k \in 1..Len(kws) : Contains(kws[k], s)

\* s.endswith(suffix)
EndsWith(s, suffix) ==
    /\ Len(suffix) <= Len(s)
    /\ SubSeq(s, Len(s) - Len(suffix) + 1, Len(s)) = suffix

\* the regular expression assertion \b at the position after p characters of s
WordBoundary(s, p) ==
    LET before == p >= 1 /\ p <= Len(s) /\ IsWordChar(s[p])
        after  == p + 1 >= 1 /\ p + 1 <= Len(s) /\ IsWordChar(s[p + 1])
    IN  before # after

\* \bkw\b matches s at position i
WordMatchAt(kw, s, i) ==
    /\ MatchAt(kw, s, i)
    /\ WordBoundary(s, i - 1)
    /\ WordBoundary(s, i + Len(kw) - 1)

\* re.search(r'\b(k1|k2|...)\b', s) is not None
WordSearch(kws, s) ==
    \E k \in 1..Len(kws) : \E i \in 1..Len(s) : WordMatchAt(kws[k], s, i)

\* the end of the greedy \s* that starts at position i
RECURSIVE SkipSpaces(_, _)
SkipSpaces(s, i) ==
    IF i <= Len(s) /\ IsSpace(s[i]) THEN SkipSpaces(s, i + 1) ELSE i

\* re.sub(rf'\b{re.escape(kw)}\b\s*', '', s, flags=re.IGNORECASE) from position i:
\* re.sub replaces every non-overlapping match, leftmost first
RECURSIVE SubFrom(_, _, _)
SubFrom(kw, s, i) ==
    IF i > Len(s) THEN <<>>
    ELSE IF WordMatchAt(kw, Lower(s), i)
         THEN SubFrom(kw, s, SkipSpaces(s, i + Len(kw)))
         ELSE <<s[i]>> \o SubFrom(kw, s, i + 1)

ReSubKeyword(kw, s) == SubFrom(kw, s, 1)

(***************************************************************************)
(* Keyword lists of DialogManager.classify_intent                          *)
(***************************************************************************)
reset_keywords ==
    << <<"r","e","s","e","t">>,
       <<"s","t","a","r","t"," ","o","v","e","r">>,
       <<"c","l","e","a","r">>,
       <<"n","e","w"," ","c","o","n","v","e","r","s","a","t","i","o","n">> >>
help_keywords ==
    << <<"h","e","l","p">>,
       <<"h","o","w"," ","d","o","e","s"," ","t","h","i","s"," ","w","o","r","k">>,
       <<"w","h","a","t"," ","c","a","n"," ","y","o","u"," ","d","o">> >>
greeting_keywords ==
    << <<"h","i">>,
       <<"h","e","l","l","o">>,
       <<"h","e","y">>,
       <<"g","r","e","e","t","i","n","g","s">>,
       <<"h","o","w","d","y">> >>
research_keywords ==
    << <<"r","e","s","e","a","r","c","h">>,
       <<"f","i","n","d">>,
       <<"l","o","o","k"," ","u","p">>,
       <<"s","e","a","r","c","h">>,
       <<"i","n","v","e","s","t","i","g","a","t","e">>,
       <<"a","n","a","l","y","z","e">>,
       <<"s","t","u","d","y">>,
       <<"g","e","t"," ","i","n","f","o">>,
       <<"t","e","l","l"," ","m","e"," ","a","b","o","u","t">>,
       <<"w","h","a","t"," ","i","s">>,
       <<"w","h","o"," ","i","s">>,
       <<"m","a","r","k","e","t">>,
       <<"i","n","d","u","s","t","r","y">>,
       <<"c","o","m","p","a","n","y">>,
       <<"t","r","e","n","d","s">>,
       <<"s","t","a","t","i","s","t","i","c","s">>,
       <<"d","a","t","a"," ","o","n">>,
       <<"r","e","p","o","r","t"," ","o","n">> >>
followup_keywords ==
    << <<"m","o","r","e"," ","a","b","o","u","t">>,
       <<"t","e","l","l"," ","m","e"," ","m","o","r","e">>,
       <<"e","x","p","a","n","d"," ","o","n">>,
       <<"e","l","a","b","o","r","a","t","e">>,
       <<"d","e","t","a","i","l","s">>,
       <<"a","d","d","i","t","i","o","n","a","l"," ","i","n","f","o">>,
       <<"w","h","a","t"," ","a","b","o","u","t">>,
       <<"h","o","w"," ","a","b","o","u","t">>,
       <<"w","h","y">>,
       <<"h","o","w">>,
       <<"w","h","e","n">> >>
comparison_keywords ==
    << <<"c","o","m","p","a","r","e">>,
       <<"v","s">>,
       <<"v","e","r","s","u","s">>,
       <<"d","i","f","f","e","r","e","n","c","e","s"," ","b","e","t","w","e","e","n">> >>
clarification_keywords ==
    << <<"w","h","a","t"," ","d","o"," ","y","o","u"," ","m","e","a","n">>,
       <<"c","l","a","r","i","f","y">>,
       <<"e","x","p","l","a","i","n">>,
       <<"c","o","n","f","u","s","e","d">>,
       <<"d","o","n","'","t"," ","u","n","d","e","r","s","t","a","n","d">> >>
feedback_keywords ==
    << <<"g","o","o","d"," ","j","o","b">>,
       <<"w","e","l","l"," ","d","o","n","e">>,
       <<"t","h","a","n","k","s">>,
       <<"t","h","a","n","k"," ","y","o","u">>,
       <<"h","e","l","p","f","u","l">>,
       <<"n","o","t"," ","h","e","l","p","f","u","l">>,
       <<"u","s","e","l","e","s","s">>,
       <<"w","r","o","n","g">> >>
positive_words ==
    << <<"g","o","o","d">>,
       <<"w","e","l","l">>,
       <<"t","h","a","n","k","s">>,
       <<"t","h","a","n","k">>,
       <<"h","e","l","p","f","u","l">> >>

(***************************************************************************)
(* Utterances                                                              *)
(***************************************************************************)
U_reset == \* "reset"
    <<"r","e","s","e","t">>
U_RESET_bang == \* "  RESET now  "
    <<" "," ","R","E","S","E","T"," ","n","o","w"," "," ">>
U_clear_market == \* "clear the market research"
    <<"c","l","e","a","r"," ","t","h","e"," ","m","a","r","k","e","t"," ","r","e","s","e","a","r","c","h">>
U_preset == \* "preset hi"
    <<"p","r","e","s","e","t"," ","h","i">>
U_help == \* "help"
    <<"h","e","l","p">>
U_hi_help == \* "hi can you help"
    <<"h","i"," ","c","a","n"," ","y","o","u"," ","h","e","l","p">>
U_hi == \* "Hi"
    <<"H","i">>
U_hello_there == \* "hello there"
    <<"h","e","l","l","o"," ","t","h","e","r","e">>
U_research_ev == \* "Research the electric vehicle market"
    <<"R","e","s","e","a","r","c","h"," ","t","h","e"," ","e","l","e","c","t","r","i","c"," ","v","e","h","i","c","l","e"," ","m","a","r","k","e","t">>
U_research == \* "research"
    <<"r","e","s","e","a","r","c","h">>
U_find_twice == \* "find growth then find share"
    <<"f","i","n","d"," ","g","r","o","w","t","h"," ","t","h","e","n"," ","f","i","n","d"," ","s","h","a","r","e">>
U_supermarket == \* "the supermarket"
    <<"t","h","e"," ","s","u","p","e","r","m","a","r","k","e","t">>
U_tell_me_more == \* "tell me more"
    <<"t","e","l","l"," ","m","e"," ","m","o","r","e">>
U_growing_q == \* "is it growing?"
    <<"i","s"," ","i","t"," ","g","r","o","w","i","n","g","?">>
U_compare == \* "compare tesla vs byd"
    <<"c","o","m","p","a","r","e"," ","t","e","s","l","a"," ","v","s"," ","b","y","d">>
U_clarify == \* "please clarify that"
    <<"p","l","e","a","s","e"," ","c","l","a","r","i","f","y"," ","t","h","a","t">>
U_thanks == \* "thanks"
    <<"t","h","a","n","k","s">>
U_not_helpful == \* "not helpful"
    <<"n","o","t"," ","h","e","l","p","f","u","l">>
U_useless == \* "useless"
    <<"u","s","e","l","e","s","s">>
U_well_wrong == \* "well that was wrong"
    <<"w","e","l","l"," ","t","h","a","t"," ","w","a","s"," ","w","r","o","n","g">>
U_nice_day == \* "nice sunny day"
    <<"n","i","c","e"," ","s","u","n","n","y"," ","d","a","y">>
U_long_plain == \* "i want some advice on batteries"
    <<"i"," ","w","a","n","t"," ","s","o","m","e"," ","a","d","v","i","c","e"," ","o","n"," ","b","a","t","t","e","r","i","e","s">>

\* every utterance of the model
Utterances ==
    { U_reset, U_RESET_bang, U_clear_market, U_preset, U_help, U_hi_help, U_hi,
      U_hello_there, U_research_ev, U_research, U_find_twice, U_supermarket,
      U_tell_me_more, U_growing_q, U_compare, U_clarify, U_thanks,
      U_not_helpful, U_useless, U_well_wrong, U_nice_day, U_long_plain }

(***************************************************************************)
(* DialogIntent and DialogContext                                          *)
(***************************************************************************)
\* Python's None where a text or an identifier is expected
None == <<"None">>

INTENT_GREETING == "greeting"
INTENT_RESEARCH == "research_request"
INTENT_FOLLOWUP == "followup_question"
INTENT_CLARIFICATION == "clarification_request"
INTENT_COMPARISON == "comparison_request"
INTENT_COMMAND == "system_command"
INTENT_FEEDBACK == "user_feedback"
INTENT_SMALLTALK == "small_talk"
INTENT_UNKNOWN == "unknown"

IntentTypes ==
    { INTENT_GREETING, INTENT_RESEARCH, INTENT_FOLLOWUP, INTENT_CLARIFICATION,
      INTENT_COMPARISON, INTENT_COMMAND, INTENT_FEEDBACK, INTENT_SMALLTALK,
      INTENT_UNKNOWN }

\* the dict {}
EmptyDict == [k \in {} |-> None]

\* a parameters value that is not a dict (a JSON string, number or list)
NonDict == [nondict |-> TRUE]

IsDict(p) == "nondict" \notin DOMAIN p

\* Python truth value of a parameters value: {} and None are false
ParamsTruthy(p) == p # EmptyDict

\* DialogIntent.__init__: parameters or {}
DialogIntent(intent_type, parameters) ==
    [ type |-> intent_type,
      parameters |-> IF ParamsTruthy(parameters) THEN parameters ELSE EmptyDict ]

\* context.last_intent = None
NoIntent == [type |-> "None", parameters |-> EmptyDict]

\* dict.get(key, default)
Get(d, key, default) == IF key \in DOMAIN d THEN d[key] ELSE default

\* Python truth value of an optional text: None and "" are false
Truthy(t) == t # None /\ t # <<>>

\* DialogContext.__init__
NewContext(session_id) ==
    [ session_id |-> session_id,
      history |-> <<>>,
      current_topic |-> None,
      current_research_id |-> None,
      last_intent |-> NoIntent,
      conversation_state |-> "greeting" ]

\* an add_message that does not record the messages of the user
add_message_without_user(context, role, content) ==
    IF role = "user" THEN context
    ELSE [context EXCEPT !.history = Append(@, [role |-> role, content |-> content])]

\* DialogContext.add_message
add_message(context, role, content) ==
    [context EXCEPT !.history = Append(@, [role |-> role, content |-> content])]

(***************************************************************************)
(* The generation capability, as the dialog manager sees it: getting the   *)
(* dialog agent may fail, building or running the crew may fail, or the    *)
(* run returns a text.  A returned text is described by what the parser    *)
(* of _classify_with_llm reads from it.                                    *)
(***************************************************************************)
\* result.raw: braces = re.search(r'(\{.*\})') finds a span; json = what
\* json.loads gives for the span (or for the whole text without a span)
RawText(braces, json, intent_data, has_research, has_followup) ==
    [ braces |-> braces, json |-> json, intent_data |-> intent_data,
      has_research |-> has_research, has_followup |-> has_followup ]

RawObject(intent_data) ==
    RawText(TRUE, "object", intent_data,
            "intent_type" \in DOMAIN intent_data
                /\ intent_data.intent_type = INTENT_RESEARCH,
            FALSE)

LlmTopic == <<"e","v","s">>

RawTexts ==
    { RawObject([intent_type |-> INTENT_RESEARCH, parameters |-> [topic |-> LlmTopic]]),
      RawObject([intent_type |-> INTENT_RESEARCH, parameters |-> NonDict]),
      RawObject([intent_type |-> INTENT_RESEARCH]),
      RawObject([intent_type |-> INTENT_COMMAND, parameters |-> [command |-> "reset"]]),
      RawObject([intent_type |-> INTENT_COMMAND, parameters |-> NonDict]),
      RawObject([intent_type |-> INTENT_FOLLOWUP, parameters |-> EmptyDict]),
      RawObject([intent_type |-> INTENT_COMPARISON, parameters |-> NonDict]),
      RawObject([intent_type |-> INTENT_SMALLTALK, parameters |-> NonDict]),
      RawObject([intent_type |-> "booking_request", parameters |-> EmptyDict]),
      RawObject([parameters |-> EmptyDict]),
      RawText(FALSE, "nonobject", EmptyDict, TRUE, FALSE),
      RawText(TRUE, "invalid", EmptyDict, TRUE, TRUE),
      RawText(FALSE, "invalid", EmptyDict, TRUE, FALSE),
      RawText(FALSE, "invalid", EmptyDict, FALSE, TRUE),
      RawText(TRUE, "invalid", EmptyDict, FALSE, FALSE) }

NoRaw == RawText(FALSE, "invalid", EmptyDict, FALSE, FALSE)

\* outcomes of get_dialog_agent() ... crew.kickoff()
GenOutcomes ==
    { [status |-> "agent_error", raw |-> NoRaw],
      [status |-> "run_error", raw |-> NoRaw] }
    \cup { [status |-> "ok", raw |-> r] : r \in RawTexts }

(***************************************************************************)
(* DialogManager.classify_intent                                           *)
(***************************************************************************)
\* message.lower().strip()
MessageLower(message) == Strip(Lower(message))

\* a reset rule that asks for the whole message to be a reset keyword
IsResetCommand_whole_message(message_lower) ==
    \E i \in 1..Len(reset_keywords) : reset_keywords[i] = message_lower

IsResetCommand(message_lower) == WordSearch(reset_keywords, message_lower)

IsHelpCommand(message_lower) == WordSearch(help_keywords, message_lower)

IsGreeting(message_lower) ==
    /\ TokenCount(message_lower) <= 3
    /\ WordSearch(greeting_keywords, message_lower)

IsResearchRequest(message_lower) == ContainsAny(research_keywords, message_lower)

IsFollowupText(message_lower) ==
    \/ ContainsAny(followup_keywords, message_lower)
    \/ EndsWith(message_lower, <<"?">>)

IsComparison(message_lower) == ContainsAny(comparison_keywords, message_lower)

IsClarification(message_lower) == WordSearch(clarification_keywords, message_lower)

IsFeedback(message_lower) == WordSearch(feedback_keywords, message_lower)

IsSmallTalk(message_lower) == TokenCount(message_lower) <= 5

\* the loop over research_keywords: the first keyword of the list found in
\* message_lower is removed from message by re.sub
ResearchTopic(message) ==
    LET message_lower == MessageLower(message)
        k == CHOOSE i \in 1..Len(research_keywords) :
                /\ Contains(research_keywords[i], message_lower)
                /\ \A j \in 1..(i - 1) : ~Contains(research_keywords[j], message_lower)
    IN  Strip(ReSubKeyword(research_keywords[k], message))

FeedbackSentiment(message_lower) ==
    IF ContainsAny(positive_words, message_lower) THEN "positive" ELSE "negative"

\* what classify_intent computes from the message alone
MessageFacts(message) ==
    LET message_lower == MessageLower(message) IN
    [ reset |-> IsResetCommand(message_lower),
      help |-> IsHelpCommand(message_lower),
      greeting |-> IsGreeting(message_lower),
      research |-> IsResearchRequest(message_lower),
      topic |-> IF IsResearchRequest(message_lower)
                THEN ResearchTopic(message) ELSE <<>>,
      followup |-> IsFollowupText(message_lower),
      comparison |-> IsComparison(message_lower),
      clarification |-> IsClarification(message_lower),
      feedback |-> IsFeedback(message_lower),
      sentiment |-> FeedbackSentiment(message_lower),
      small_talk |-> IsSmallTalk(message_lower) ]

\* MessageFacts of every utterance of the model, computed once
Facts == [m \in Utterances |-> MessageFacts(m)]

\* a follow-up intent that does not refer to the current research
FollowupIntent_without_research(message, context) ==
    DialogIntent(INTENT_FOLLOWUP,
                 [ topic |-> context.current_topic,
                   question |-> message,
                   related_to |-> None ])

FollowupIntent(message, context) ==
    DialogIntent(INTENT_FOLLOWUP,
                 [ topic |-> context.current_topic,
                   question |-> message,
                   related_to |-> context.current_research_id ])

\* _classify_with_llm looking for "followup" before "research" in the raw text
classify_with_llm_followup_first(message, context, gen) ==
    IF gen.status # "ok"
    THEN DialogIntent(INTENT_UNKNOWN, [message |-> message])
    ELSE LET raw == gen.raw IN
         CASE raw.json = "object" ->
                DialogIntent(Get(raw.intent_data, "intent_type", INTENT_UNKNOWN),
                             Get(raw.intent_data, "parameters", EmptyDict))
           [] raw.json = "invalid" ->
                IF raw.has_followup
                THEN DialogIntent(INTENT_FOLLOWUP, [question |-> message])
                ELSE IF raw.has_research
                     THEN DialogIntent(INTENT_RESEARCH, [topic |-> message])
                     ELSE DialogIntent(INTENT_UNKNOWN, [message |-> message])
           [] OTHER ->
                \* intent_data.get raises AttributeError: the outer except
                DialogIntent(INTENT_UNKNOWN, [message |-> message])

\* DialogManager._classify_with_llm
classify_with_llm(message, context, gen) ==
    IF gen.status # "ok"
    THEN DialogIntent(INTENT_UNKNOWN, [message |-> message])
    ELSE LET raw == gen.raw IN
         CASE raw.json = "object" ->
                DialogIntent(Get(raw.intent_data, "intent_type", INTENT_UNKNOWN),
                             Get(raw.intent_data, "parameters", EmptyDict))
           [] raw.json = "invalid" ->
                IF raw.has_research
                THEN DialogIntent(INTENT_RESEARCH, [topic |-> message])
                ELSE IF raw.has_followup
                     THEN DialogIntent(INTENT_FOLLOWUP, [question |-> message])
                     ELSE DialogIntent(INTENT_UNKNOWN, [message |-> message])
           [] OTHER ->
                \* intent_data.get raises AttributeError: the outer except
                DialogIntent(INTENT_UNKNOWN, [message |-> message])

Result(intent, llm_called) == [intent |-> intent, llm_called |-> llm_called]

\* classify_intent with the small-talk rule tried before the feedback rule
classify_intent_small_talk_first(message, context, gen) ==
    LET f == Facts[message] IN
    IF f.reset
    THEN Result(DialogIntent(INTENT_COMMAND, [command |-> "reset"]), FALSE)
    ELSE IF f.help
    THEN Result(DialogIntent(INTENT_COMMAND, [command |-> "help"]), FALSE)
    ELSE IF f.greeting
    THEN Result(DialogIntent(INTENT_GREETING, EmptyDict), FALSE)
    ELSE IF f.research
    THEN Result(DialogIntent(INTENT_RESEARCH,
                             [topic |-> f.topic, original_query |-> message]), FALSE)
    ELSE IF Truthy(context.current_topic) /\ f.followup
    THEN Result(FollowupIntent(message, context), FALSE)
    ELSE IF f.comparison
    THEN Result(DialogIntent(INTENT_COMPARISON, [comparison_query |-> message]), FALSE)
    ELSE IF f.clarification
    THEN Result(DialogIntent(INTENT_CLARIFICATION, [request |-> message]), FALSE)
    ELSE IF f.small_talk
    THEN Result(DialogIntent(INTENT_SMALLTALK, [message |-> message]), FALSE)
    ELSE IF f.feedback
    THEN Result(DialogIntent(INTENT_FEEDBACK,
                             [sentiment |-> f.sentiment, feedback |-> message]), FALSE)
    ELSE IF Truthy(context.current_topic)
    THEN Result(FollowupIntent(message, context), FALSE)
    ELSE IF Len(context.history) > 0
    THEN Result(classify_with_llm(message, context, gen), TRUE)
    ELSE Result(DialogIntent(INTENT_UNKNOWN, [message |-> message]), FALSE)

\* classify_intent with the model fallback tried before the small-talk rule
classify_intent_fallback_early(message, context, gen) ==
    LET f == Facts[message] IN
    IF f.reset
    THEN Result(DialogIntent(INTENT_COMMAND, [command |-> "reset"]), FALSE)
    ELSE IF f.help
    THEN Result(DialogIntent(INTENT_COMMAND, [command |-> "help"]), FALSE)
    ELSE IF f.greeting
    THEN Result(DialogIntent(INTENT_GREETING, EmptyDict), FALSE)
    ELSE IF f.research
    THEN Result(DialogIntent(INTENT_RESEARCH,
                             [topic |-> f.topic, original_query |-> message]), FALSE)
    ELSE IF Truthy(context.current_topic) /\ f.followup
    THEN Result(FollowupIntent(message, context), FALSE)
    ELSE IF f.comparison
    THEN Result(DialogIntent(INTENT_COMPARISON, [comparison_query |-> message]), FALSE)
    ELSE IF f.clarification
    THEN Result(DialogIntent(INTENT_CLARIFICATION, [request |-> message]), FALSE)
    ELSE IF f.feedback
    THEN Result(DialogIntent(INTENT_FEEDBACK,
                             [sentiment |-> f.sentiment, feedback |-> message]), FALSE)
    ELSE IF Len(context.history) > 0
    THEN Result(classify_with_llm(message, context, gen), TRUE)
    ELSE IF f.small_talk
    THEN Result(DialogIntent(INTENT_SMALLTALK, [message |-> message]), FALSE)
    ELSE IF Truthy(context.current_topic)
    THEN Result(FollowupIntent(message, context), FALSE)
    ELSE Result(DialogIntent(INTENT_UNKNOWN, [message |-> message]), FALSE)

\* classify_intent with a follow-up keyword rule that does not look at the topic
classify_intent_followup_without_topic(message, context, gen) ==
    LET f == Facts[message] IN
    IF f.reset
    THEN Result(DialogIntent(INTENT_COMMAND, [command |-> "reset"]), FALSE)
    ELSE IF f.help
    THEN Result(DialogIntent(INTENT_COMMAND, [command |-> "help"]), FALSE)
    ELSE IF f.greeting
    THEN Result(DialogIntent(INTENT_GREETING, EmptyDict), FALSE)
    ELSE IF f.research
    THEN Result(DialogIntent(INTENT_RESEARCH,
                             [topic |-> f.topic, original_query |-> message]), FALSE)
    ELSE IF f.followup
    THEN Result(FollowupIntent(message, context), FALSE)
    ELSE IF f.comparison
    THEN Result(DialogIntent(INTENT_COMPARISON, [comparison_query |-> message]), FALSE)
    ELSE IF f.clarification
    THEN Result(DialogIntent(INTENT_CLARIFICATION, [request |-> message]), FALSE)
    ELSE IF f.feedback
    THEN Result(DialogIntent(INTENT_FEEDBACK,
                             [sentiment |-> f.sentiment, feedback |-> message]), FALSE)
    ELSE IF f.small_talk
    THEN Result(DialogIntent(INTENT_SMALLTALK, [message |-> message]), FALSE)
    ELSE IF Truthy(context.current_topic)
    THEN Result(FollowupIntent(message, context), FALSE)
    ELSE IF Len(context.history) > 0
    THEN Result(classify_with_llm(message, context, gen), TRUE)
    ELSE Result(DialogIntent(INTENT_UNKNOWN, [message |-> message]), FALSE)

\* the result of classify_intent and whether it called the generation capability
classify_intent(message, context, gen) ==
    LET f == Facts[message] IN
    IF f.reset
    THEN Result(DialogIntent(INTENT_COMMAND, [command |-> "reset"]), FALSE)
    ELSE IF f.help
    THEN Result(DialogIntent(INTENT_COMMAND, [command |-> "help"]), FALSE)
    ELSE IF f.greeting
    THEN Result(DialogIntent(INTENT_GREETING, EmptyDict), FALSE)
    ELSE IF f.research
    THEN Result(DialogIntent(INTENT_RESEARCH,
                             [topic |-> f.topic, original_query |-> message]), FALSE)
    ELSE IF Truthy(context.current_topic) /\ f.followup
    THEN Result(FollowupIntent(message, context), FALSE)
    ELSE IF f.comparison
    THEN Result(DialogIntent(INTENT_COMPARISON, [comparison_query |-> message]), FALSE)
    ELSE IF f.clarification
    THEN Result(DialogIntent(INTENT_CLARIFICATION, [request |-> message]), FALSE)
    ELSE IF f.feedback
    THEN Result(DialogIntent(INTENT_FEEDBACK,
                             [sentiment |-> f.sentiment, feedback |-> message]), FALSE)
    ELSE IF f.small_talk
    THEN Result(DialogIntent(INTENT_SMALLTALK, [message |-> message]), FALSE)
    ELSE IF Truthy(context.current_topic)
    THEN Result(FollowupIntent(message, context), FALSE)
    ELSE IF Len(context.history) > 0
    THEN Result(classify_with_llm(message, context, gen), TRUE)
    ELSE Result(DialogIntent(INTENT_UNKNOWN, [message |-> message]), FALSE)

(***************************************************************************)
(* Response generators of DialogManager                                    *)
(***************************************************************************)
\* a message content: what kind of text it is, and the text it embeds
Content(kind, text) == [kind |-> kind, text |-> text]

Utterance(message) == Content("utterance", message)

\* what a generator does: it returns a response or raises, and leaves a context
Returned(context, response) ==
    [status |-> "returned", context |-> context, response |-> response]

Raised(context) ==
    [status |-> "raised", context |-> context, response |-> Content("none", <<>>)]

generate_help_message == Content("help", <<>>)

generate_greeting(context) ==
    IF Len(context.history) <= 2
    THEN Content("greeting_first", <<>>)
    ELSE Content("greeting_again", <<>>)

\* DialogManager._generate_research_response; gen_status is the outcome of the
\* generation capability.  The except clause reads topic, which is unbound
\* when the failure came before its assignment.
generate_research_response(intent, context, gen_status) ==
    IF gen_status = "agent_error" \/ ~IsDict(intent.parameters)
    THEN Raised(context)
    ELSE LET topic == Get(intent.parameters, "topic", <<>>)
             original_query == Get(intent.parameters, "original_query", topic)
             comparison_query == Get(intent.parameters, "comparison_query", <<>>)
             query_text == IF intent.type = INTENT_COMPARISON
                           THEN comparison_query ELSE original_query
         IN  IF gen_status = "run_error"
             THEN Returned(context, Content("research_fallback", topic))
             ELSE Returned([context EXCEPT !.current_topic =
                                IF Truthy(topic) THEN topic ELSE query_text],
                           Content("generated", <<>>))

\* DialogManager._generate_followup_response
generate_followup_response(intent, context, gen_status) ==
    IF gen_status # "ok" \/ ~IsDict(intent.parameters)
    THEN Returned(context, Content("followup_fallback", <<>>))
    ELSE Returned(context,
                  Content("generated", <<>>))

\* DialogManager._generate_clarification
generate_clarification(intent, context) ==
    LET assistant == {i \in 1..Len(context.history) :
                         context.history[i].role = "assistant"}
    IN  IF assistant # {}
        THEN LET last == CHOOSE i \in assistant : \A j \in assistant : j <= i
             IN  Content("clarify_last", <<context.history[last].content.kind>>)
        ELSE Content("clarify_none", <<>>)

\* DialogManager._acknowledge_feedback
acknowledge_feedback(intent, context) ==
    IF ~IsDict(intent.parameters)
    THEN Raised(context)
    ELSE IF Get(intent.parameters, "sentiment", "neutral") = "positive"
         THEN Returned(context, Content("feedback_positive", <<>>))
         ELSE Returned(context, Content("feedback_other", <<>>))

W_how == <<"h","o","w">>
W_are == <<"a","r","e">>
W_you == <<"y","o","u">>
W_who == <<"w","h","o">>
W_thanks == <<"t","h","a","n","k","s">>
W_thank == <<"t","h","a","n","k">>

\* the branches of DialogManager._handle_small_talk on message.lower()
SmallTalkKind(message) ==
    LET message_lower == Lower(message)
    IN  IF ContainsAny(<<W_how, W_are, W_you>>, message_lower) THEN "smalltalk_how"
        ELSE IF ContainsAny(<<W_thanks, W_thank>>, message_lower) THEN "smalltalk_thanks"
        ELSE IF ContainsAny(<<W_who, W_are, W_you>>, message_lower) THEN "smalltalk_who"
        ELSE "smalltalk_default"

\* SmallTalkKind of every utterance of the model, computed once
SmallTalkKinds == [m \in Utterances \cup {<<>>} |-> SmallTalkKind(m)]

\* DialogManager._handle_small_talk
handle_small_talk(intent, context) ==
    IF ~IsDict(intent.parameters)
    THEN Raised(context)
    ELSE Returned(context,
                  Content(SmallTalkKinds[Get(intent.parameters, "message", <<>>)], <<>>))

\* DialogManager._handle_unknown_intent
handle_unknown_intent(context) ==
    IF Truthy(context.current_topic)
    THEN Content("unknown_topic", context.current_topic)
    ELSE Content("unknown_plain", <<>>)

(***************************************************************************)
(* DialogManager.process_message                                           *)
(***************************************************************************)
\* a state update that also takes a comparison request to "researching"
update_state_comparison_researching(intent, context) ==
    IF intent.type = INTENT_GREETING
    THEN Returned([context EXCEPT !.conversation_state = "greeting"], Content("none", <<>>))
    ELSE IF intent.type = INTENT_RESEARCH
    THEN IF IsDict(intent.parameters)
         THEN Returned([context EXCEPT !.conversation_state = "researching",
                                       !.current_topic = Get(intent.parameters, "topic", None)],
                       Content("none", <<>>))
         ELSE Raised([context EXCEPT !.conversation_state = "researching"])
    ELSE IF intent.type = INTENT_FOLLOWUP
    THEN Returned([context EXCEPT !.conversation_state = "discussing"], Content("none", <<>>))
    ELSE IF intent.type = INTENT_COMPARISON
    THEN Returned([context EXCEPT !.conversation_state = "researching"], Content("none", <<>>))
    ELSE Returned(context, Content("none", <<>>))

\* "Update conversation state based on intent"; parameters.get raises when
\* parameters is not a dict
update_state(intent, context) ==
    IF intent.type = INTENT_GREETING
    THEN Returned([context EXCEPT !.conversation_state = "greeting"], Content("none", <<>>))
    ELSE IF intent.type = INTENT_RESEARCH
    THEN IF IsDict(intent.parameters)
         THEN Returned([context EXCEPT !.conversation_state = "researching",
                                       !.current_topic = Get(intent.parameters, "topic", None)],
                       Content("none", <<>>))
         ELSE Raised([context EXCEPT !.conversation_state = "researching"])
    ELSE IF intent.type = INTENT_FOLLOWUP
    THEN Returned([context EXCEPT !.conversation_state = "discussing"], Content("none", <<>>))
    ELSE Returned(context, Content("none", <<>>))

\* the command branch with a reset that keeps last_intent
handle_command_keeps_last_intent(intent, context) ==
    IF ~IsDict(intent.parameters)
    THEN Raised(context)
    ELSE LET command == Get(intent.parameters, "command", "None")
         IN  IF command = "reset"
             THEN Returned([NewContext(context.session_id) EXCEPT
                               !.last_intent = context.last_intent],
                           Content("reset_ack", <<>>))
             ELSE IF command = "help"
             THEN Returned(context, generate_help_message)
             ELSE Returned(context, Content("empty", <<>>))

\* the command branch with a reset that keeps the topic of the conversation
handle_command_keeps_topic(intent, context) ==
    IF ~IsDict(intent.parameters)
    THEN Raised(context)
    ELSE LET command == Get(intent.parameters, "command", "None")
         IN  IF command = "reset"
             THEN Returned([NewContext(context.session_id) EXCEPT
                               !.current_topic = context.current_topic],
                           Content("reset_ack", <<>>))
             ELSE IF command = "help"
             THEN Returned(context, generate_help_message)
             ELSE Returned(context, Content("empty", <<>>))

\* the command branch: "Reset context but keep session ID"
handle_command(intent, context) ==
    IF ~IsDict(intent.parameters)
    THEN Raised(context)
    ELSE LET command == Get(intent.parameters, "command", "None")
         IN  IF command = "reset"
             THEN Returned(NewContext(context.session_id), Content("reset_ack", <<>>))
             ELSE IF command = "help"
             THEN Returned(context, generate_help_message)
             ELSE Returned(context, Content("empty", <<>>))

\* "Process different intents"
dispatch(intent, context, gen_status) ==
    IF intent.type = INTENT_COMMAND
    THEN handle_command(intent, context)
    ELSE IF intent.type = INTENT_GREETING
    THEN Returned(context, generate_greeting(context))
    ELSE IF intent.type \in {INTENT_RESEARCH, INTENT_COMPARISON}
    THEN generate_research_response(intent, context, gen_status)
    ELSE IF intent.type = INTENT_FOLLOWUP
    THEN generate_followup_response(intent, context, gen_status)
    ELSE IF intent.type = INTENT_CLARIFICATION
    THEN Returned(context, generate_clarification(intent, context))
    ELSE IF intent.type = INTENT_FEEDBACK
    THEN acknowledge_feedback(intent, context)
    ELSE IF intent.type = INTENT_SMALLTALK
    THEN handle_small_talk(intent, context)
    ELSE Returned(context, handle_unknown_intent(context))

\* "Add assistant response to context" and return
finish_turn(d) ==
    IF d.status = "raised" THEN d
    ELSE Returned(add_message(d.context, "assistant", d.response), d.response)

(***************************************************************************)
(* CacheTool (market_research/agents.py)                                   *)
(***************************************************************************)
\* str.replace(old, new) for one-character old and new
ReplaceChar(s, old, new) == [i \in 1..Len(s) |-> IF s[i] = old THEN new ELSE s[i]]

\* key.replace(" ", "_").replace("/", "_").lower()
sanitized_key(key) == Lower(ReplaceChar(ReplaceChar(key, " ", "_"), "/", "_"))

\* the return value of load_from_cache for a key with no file
NotFoundText == <<"No data found in cache for this key">>

\* the return value of load_from_cache when reading fails
LoadErrorText == <<"Error loading from cache">>

\* CacheTool.save_to_cache: the file of the sanitized key holds data
save_to_cache(files, key, data) ==
    [k \in DOMAIN files \cup {sanitized_key(key)} |->
        IF k = sanitized_key(key) THEN data ELSE files[k]]

\* f.read() of a file opened with open(path, "r"): text mode translates the
\* line endings "\r\n" and "\r" of the file to "\n"
RECURSIVE UniversalNewlines(_)
UniversalNewlines(s) ==
    IF Len(s) = 0 THEN <<>>
    ELSE IF s[1] = "\r"
    THEN <<"\n">> \o UniversalNewlines(
             SubSeq(s, IF Len(s) >= 2 /\ s[2] = "\n" THEN 3 ELSE 2, Len(s)))
    ELSE <<s[1]>> \o UniversalNewlines(Tail(s))

\* a load that returns what the file holds, with no translation
load_from_cache_verbatim(files, key, readable) ==
    IF ~readable THEN LoadErrorText
    ELSE IF sanitized_key(key) \in DOMAIN files THEN files[sanitized_key(key)]
    ELSE NotFoundText

\* CacheTool.load_from_cache
load_from_cache(files, key, readable) ==
    IF ~readable THEN LoadErrorText
    ELSE IF sanitized_key(key) \in DOMAIN files
    THEN UniversalNewlines(files[sanitized_key(key)])
    ELSE NotFoundText

(***************************************************************************)
(* ResearchEngine.create_research_tasks                                    *)
(***************************************************************************)
T_research_ == <<"r","e","s","e","a","r","c","h","_">>
T_underscore == <<"_">>
SUFFIX_RAW == <<"_","r","a","w">>
SUFFIX_ANALYSIS == <<"_","a","n","a","l","y","s","i","s">>
SUFFIX_VERIFIED == <<"_","v","e","r","i","f","i","e","d">>
SUFFIX_FINAL == <<"_","f","i","n","a","l">>

\* params.query[:20]
QueryPrefixLen == 20

QueryPrefix(query) ==
    SubSeq(query, 1, IF Len(query) < QueryPrefixLen THEN Len(query) ELSE QueryPrefixLen)

\* f"research_{params.query[:20]}_{task_id}"
cache_key(query, task_id) == T_research_ \o QueryPrefix(query) \o T_underscore \o task_id

\* Task(description, agent, context): save_key is the key the description tells
\* the agent to save its output with, read_keys the keys it names as saved
Task(name, agent, task_context, save_key, read_keys) ==
    [ name |-> name, agent |-> agent, context |-> task_context,
      save_key |-> save_key, read_keys |-> read_keys ]

parameter_extraction_task(key) ==
    Task("parameter_extraction_task", "dialog", {}, None, {})

research_task(key) ==
    Task("research_task", "researcher", {"parameter_extraction_task"},
         key \o SUFFIX_RAW, {})

analysis_task(key) ==
    Task("analysis_task", "analyst", {"research_task"},
         key \o SUFFIX_ANALYSIS, {key \o SUFFIX_RAW})

verification_task(key) ==
    Task("verification_task", "verifier", {"research_task", "analysis_task"},
         key \o SUFFIX_VERIFIED, {key \o SUFFIX_RAW, key \o SUFFIX_ANALYSIS})

\* a content task that is given the verification output alone
content_task_only_verification(key) ==
    Task("content_task", "writer", {"verification_task"},
         key \o SUFFIX_FINAL,
         {key \o SUFFIX_RAW, key \o SUFFIX_ANALYSIS, key \o SUFFIX_VERIFIED})

content_task(key) ==
    Task("content_task", "writer",
         {"research_task", "analysis_task", "verification_task"},
         key \o SUFFIX_FINAL,
         {key \o SUFFIX_RAW, key \o SUFFIX_ANALYSIS, key \o SUFFIX_VERIFIED})

\* the task list with the analysis task ahead of the research task
create_research_tasks_analysis_first(query, task_id) ==
    << parameter_extraction_task(cache_key(query, task_id)),
       analysis_task(cache_key(query, task_id)),
       research_task(cache_key(query, task_id)),
       verification_task(cache_key(query, task_id)),
       content_task(cache_key(query, task_id)) >>

\* the list create_research_tasks returns; task_id is its str(uuid.uuid4())[:8]
create_research_tasks(query, task_id) ==
    << parameter_extraction_task(cache_key(query, task_id)),
       research_task(cache_key(query, task_id)),
       analysis_task(cache_key(query, task_id)),
       verification_task(cache_key(query, task_id)),
       content_task(cache_key(query, task_id)) >>

(***************************************************************************)
(* ResearchEngine.conduct_research                                         *)
(***************************************************************************)
\* Process.sequential if config.process_type == "sequential" else Process.hierarchical
ProcessOf(process_type) ==
    IF process_type = "sequential" THEN "sequential" ELSE "hierarchical"

\* the keys conduct_research loads after crew.kickoff(); task_id is the
\* str(uuid.uuid4())[:8] of conduct_research
load_keys(query, task_id) ==
    << cache_key(query, task_id) \o SUFFIX_RAW,
       cache_key(query, task_id) \o SUFFIX_ANALYSIS,
       cache_key(query, task_id) \o SUFFIX_VERIFIED,
       cache_key(query, task_id) \o SUFFIX_FINAL >>

\* "Load results from cache": the four values, or result.raw four times when a
\* load raises
load_results(files, keys, mode, result_raw) ==
    IF mode = "call_raises"
    THEN [i \in 1..4 |-> result_raw]
    ELSE [i \in 1..4 |-> load_from_cache(files, keys[i], mode # "read_error")]

\* params.to_dict()
params_dict(query) ==
    [ query |-> query, depth |-> "detailed", location |-> "global",
      time_frame |-> "2 years", input_type |-> "topic" ]

\* "Format results"
research_results(query, loaded, result_raw, task_id) ==
    [ query |-> query,
      parameters |-> params_dict(query),
      raw_data |-> loaded[1],
      analysis |-> loaded[2],
      verified |-> loaded[3],
      final_report |-> loaded[4],
      result_summary |-> result_raw,
      metadata |-> [ research_id |-> task_id, timestamp |-> "now",
                     elapsed_time |-> "elapsed", model |-> "llm_model" ] ]

\* an error response that carries a report and no status
error_response_with_report(query, research_id) ==
    [ query |-> query,
      parameters |-> params_dict(query),
      error |-> "str(e)",
      final_report |-> <<>>,
      metadata |-> [ research_id |-> research_id, timestamp |-> "now",
                     elapsed_time |-> "elapsed" ] ]

\* "Return error response"; research_id is a new str(uuid.uuid4())[:8]
error_response(query, research_id) ==
    [ query |-> query,
      parameters |-> params_dict(query),
      error |-> "str(e)",
      metadata |-> [ research_id |-> research_id, timestamp |-> "now",
                     elapsed_time |-> "elapsed", status |-> "error" ] ]

\* a results file whose name does not depend on the task_id
results_path_fixed(task_id) == <<"r","e","s","u","l","t","s">>

\* os.path.join(data_dir, f"research_results_{task_id}.json")
results_path(task_id) == task_id

(***************************************************************************)
(* ResearchEngine.extract_sections                                         *)
(***************************************************************************)
\* s.split('\n')
RECURSIVE SplitLines(_)
SplitLines(s) ==
    LET at == {i \in 1..Len(s) : s[i] = "\n"}
    IN  IF at = {} THEN <<s>>
        ELSE LET i == CHOOSE a \in at : \A b \in at : a <= b
             IN  <<SubSeq(s, 1, i - 1)>> \o SplitLines(SubSeq(s, i + 1, Len(s)))

\* s.startswith(prefix)
StartsWith(s, prefix) == MatchAt(prefix, s, 1)

\* s.replace(old, '') from position i: every occurrence of old, leftmost first
RECURSIVE RemoveAllFrom(_, _, _)
RemoveAllFrom(s, old, i) ==
    IF i > Len(s) THEN <<>>
    ELSE IF MatchAt(old, s, i)
         THEN RemoveAllFrom(s, old, i + Len(old))
         ELSE <<s[i]>> \o RemoveAllFrom(s, old, i + 1)

RemoveAll(s, old) == RemoveAllFrom(s, old, 1)

H1 == <<"#"," ">>
H2 == <<"#","#"," ">>
H3 == <<"#","#","#"," ">>
Bold == <<"*","*">>
T_overview == <<"o","v","e","r","v","i","e","w">>

\* a dict assignment that adds a second entry for a name it already has
SetSection_append(sections, name, content) ==
    Append(sections, [name |-> name, content |-> content])

\* sections[name] = content on a dict that keeps the order of insertion: a
\* name it has keeps its place and gets the new content
SetSection(sections, name, content) ==
    IF \E i \in 1..Len(sections) : sections[i].name = name
    THEN [i \in 1..Len(sections) |->
             IF sections[i].name = name
             THEN [name |-> name, content |-> content] ELSE sections[i]]
    ELSE Append(sections, [name |-> name, content |-> content])

\* the locals of extract_sections before the loop
ExtractStart ==
    [ sections |-> <<>>, current_section |-> T_overview, current_content |-> <<>> ]

\* one turn of the loop over report.split('\n'); raw_line is the line before
\* line.strip()
ExtractLine(st, raw_line) ==
    LET line == Strip(raw_line) IN
    IF line = <<>> THEN st
    ELSE IF StartsWith(line, H1) THEN st
    ELSE IF StartsWith(line, H2)
    THEN [ sections |-> IF st.current_content # <<>>
                        THEN SetSection(st.sections, st.current_section,
                                        st.current_content)
                        ELSE st.sections,
           current_section |-> Lower(RemoveAll(line, H2)),
           current_content |-> <<>> ]
    ELSE IF StartsWith(line, H3)
    THEN [st EXCEPT !.current_content = Append(@, Bold \o RemoveAll(line, H3) \o Bold)]
    ELSE [st EXCEPT !.current_content = Append(@, line)]

RECURSIVE ExtractLoop(_, _, _)
ExtractLoop(lines, i, st) ==
    IF i > Len(lines) THEN st
    ELSE ExtractLoop(lines, i + 1, ExtractLine(st, lines[i]))

\* "Add the last section"
ExtractEnd(st) ==
    IF st.current_content # <<>>
    THEN SetSection(st.sections, st.current_section, st.current_content)
    ELSE st.sections

\* extract_sections(report): the dict as the sequence of its items
extract_sections(report) ==
    ExtractEnd(ExtractLoop(SplitLines(report), 1, ExtractStart))

(***************************************************************************)
(* State                                                                   *)
(***************************************************************************)
VARIABLES
    context,    \* the session's DialogContext
    prev,       \* the DialogContext as it was when the last call started
    last,       \* the last call of process_message: its inputs and its outcome
    cls,        \* one call of classify_intent: its inputs and its result
    ext,        \* one call of extract_sections: its input and its result
    cache,      \* the last call of a CacheTool method: its inputs and its result
    sq,         \* streamlit_app.py: the session state of the research queue
    run,        \* one call of conduct_research: its position and its locals
    files,      \* the cache files of data_dir: sanitized key -> text
    results     \* the research_results_{id}.json files written, in order

dialogVars == <<context, prev, last>>

pipeVars == <<run, files, results>>

vars == <<context, prev, last, cls, ext, cache, sq, run, files, results>>

SessionIds == { <<"s","1">>, <<"s","2">> }

ResearchIds == { <<"a","1">> }

\* the utterances of the modelled conversations
TurnUtterances ==
    { U_reset, U_help, U_hi, U_research_ev, U_research, U_tell_me_more,
      U_compare, U_clarify, U_thanks, U_nice_day, U_long_plain }

GenStatuses == {"agent_error", "run_error", "ok"}

\* bound on len(context.history) in the modelled conversations
MaxHistory == 4

NoCall ==
    [ op |-> "none", status |-> "none", message |-> <<>>,
      intent |-> NoIntent, response |-> Content("none", <<>>),
      llm_called |-> FALSE, cls_gen |-> [status |-> "run_error", raw |-> NoRaw],
      gen_status |-> "ok" ]

\* the locals of conduct_research before the call
NoRun ==
    [ pc |-> "idle", query |-> <<>>, process |-> "none", tasks |-> <<>>,
      write_id |-> None, read_id |-> None, started |-> <<>>,
      completed |-> <<>>, running |-> "none", stage_failed |-> FALSE,
      result_raw |-> None, loaded |-> <<>>, missed |-> FALSE,
      saved |-> 0, outcome |-> "none", result |-> [none |-> TRUE] ]

NoFiles == [k \in {} |-> None]

NoExt == [ done |-> FALSE, report |-> <<>>, sections |-> <<>> ]

\* no CacheTool method called yet
NoCache ==
    [ op |-> "none", key |-> <<>>, data |-> <<>>, readable |-> TRUE,
      returned |-> <<>> ]

\* st.session_state of streamlit_app.py at the start of a session, as far as
\* the research queue goes: research_queue, messages, and for the topic that
\* was queued last the number of acknowledgments appended and of calls of
\* conduct_research
NoSq == [ research_queue |-> None, messages |-> <<>>, appended |-> 0, executed |-> 0 ]

NoCls ==
    [ done |-> FALSE, message |-> <<>>, context |-> NewContext(<<"s","1">>),
      gen |-> [status |-> "run_error", raw |-> NoRaw],
      intent |-> NoIntent, llm_called |-> FALSE ]

(***************************************************************************)
(* Conversations: the calls of process_message on one context, and what    *)
(* the application does to the context between them                        *)
(***************************************************************************)
Init ==
    /\ \E s \in SessionIds : context = NewContext(s)
    /\ prev = context
    /\ last = NoCall
    /\ cls = NoCls
    /\ ext = NoExt
    /\ cache = NoCache
    /\ sq = NoSq
    /\ run = NoRun
    /\ files = NoFiles
    /\ results = <<>>

\* the outcomes the generation capability can have in classify_intent: one
\* is drawn only when classify_intent calls it
ClsGenFor(message) ==
    IF classify_intent(message, add_message(context, "user", Utterance(message)),
                       NoCall.cls_gen).llm_called
    THEN GenOutcomes ELSE {NoCall.cls_gen}

\* DialogManager.process_message(message, context), one whole call: cls_gen
\* is the outcome of the generation capability if classify_intent calls it,
\* gen_status its outcome if the response generator calls it.  A call that
\* raises leaves the context as it was when the exception was thrown.
ProcessMessage ==
    /\ Len(context.history) + 2 <= MaxHistory
    /\ \E message \in TurnUtterances :
       \E cls_gen \in ClsGenFor(message), gen_status \in GenStatuses :
       \E c1 \in {add_message(context, "user", Utterance(message))} :
       \E r \in {classify_intent(message, c1, cls_gen)} :
       \E u \in {update_state(r.intent, [c1 EXCEPT !.last_intent = r.intent])} :
       \E d \in {IF u.status = "raised" THEN u
                 ELSE finish_turn(dispatch(r.intent, u.context, gen_status))} :
          /\ context' = d.context
          /\ prev' = context
          /\ last' = [ op |-> "process_message", status |-> d.status,
                       message |-> message, intent |-> r.intent,
                       response |-> d.response, llm_called |-> r.llm_called,
                       cls_gen |-> cls_gen, gen_status |-> gen_status ]
    /\ UNCHANGED <<cls, ext, cache, sq, pipeVars>>

\* MarketResearchApp._display_chat_messages: the initial greeting of a session
AppGreeting ==
    /\ context.history = <<>>
    /\ last.op \in {"none", "app_reset"}
    /\ context' = add_message(context, "assistant", Content("initial_greeting", <<>>))
    /\ prev' = context
    /\ last' = [NoCall EXCEPT !.op = "app_greeting"]
    /\ UNCHANGED <<cls, ext, cache, sq, pipeVars>>

\* MarketResearchApp._process_user_input, "Handle system commands": after a
\* reset turn _reset_conversation puts a new context with the same session id
\* in place of the session's context
AppResetConversation ==
    /\ last.op = "process_message"
    /\ last.status = "returned"
    /\ last.intent.type = INTENT_COMMAND
    /\ Get(last.intent.parameters, "command", "None") = "reset"
    /\ context' = NewContext(context.session_id)
    /\ prev' = context
    /\ last' = [NoCall EXCEPT !.op = "app_reset"]
    /\ UNCHANGED <<cls, ext, cache, sq, pipeVars>>

\* MarketResearchApp._process_user_input, after the research of a research or
\* comparison request: "Update context with new topic".  The statements
\* follow st.rerun(); the step is taken only if that call returns.
AppRecordResearch(research_id) ==
    /\ last.op = "process_message"
    /\ last.status = "returned"
    /\ last.intent.type \in {INTENT_RESEARCH, INTENT_COMPARISON}
    /\ context' = [context EXCEPT
                      !.current_topic = Get(last.intent.parameters, "topic", last.message),
                      !.current_research_id = research_id]
    /\ prev' = context
    /\ last' = [NoCall EXCEPT !.op = "app_research_done"]
    /\ UNCHANGED <<cls, ext, cache, sq, pipeVars>>

\* the research of a research or comparison request ends
AppResearchDone == \E r \in ResearchIds : AppRecordResearch(r)

Next ==
    \/ ProcessMessage
    \/ AppGreeting
    \/ AppResetConversation
    \/ AppResearchDone

Spec == Init /\ [][Next]_vars

(***************************************************************************)
(* Classification of one utterance in one context: the inputs are drawn    *)
(* at ClsInit, Classify applies classify_intent                            *)
(***************************************************************************)
Topics == {None, <<>>, LlmTopic}

\* bound on the history length of the drawn contexts
MaxClsHistory == 1

ClsContexts ==
    { [NewContext(<<"s","1">>) EXCEPT
          !.current_topic = t,
          !.current_research_id = r,
          !.history = [i \in 1..n |-> [role |-> "assistant",
                                       content |-> Content("initial_greeting", <<>>)]]] :
      t \in Topics, r \in {None} \cup ResearchIds, n \in 0..MaxClsHistory }

ClsInit ==
    /\ \E m \in Utterances, c \in ClsContexts, g \in GenOutcomes :
          cls = [ done |-> FALSE, message |-> m, context |-> c, gen |-> g,
                  intent |-> NoIntent, llm_called |-> FALSE ]
    /\ context = NewContext(<<"s","1">>)
    /\ prev = context
    /\ last = NoCall
    /\ ext = NoExt
    /\ cache = NoCache
    /\ sq = NoSq
    /\ run = NoRun
    /\ files = NoFiles
    /\ results = <<>>

Classify ==
    /\ ~cls.done
    /\ LET r == classify_intent(cls.message, cls.context, cls.gen)
       IN  cls' = [cls EXCEPT !.done = TRUE, !.intent = r.intent,
                              !.llm_called = r.llm_called]
    /\ UNCHANGED <<dialogVars, ext, cache, sq, pipeVars>>

ClsNext == Classify

SpecClassify == ClsInit /\ [][ClsNext]_vars

(***************************************************************************)
(* One call of conduct_research on an empty data directory, step by step   *)
(***************************************************************************)
Q_ab_co == <<"A","/","B"," ","C","o">>
Q_long == <<"E","l","e","c","t","r","i","c"," ","v","e","h","i","c","l","e"," ","b","a","t","t","e","r","i","e","s">>

\* the queries of the modelled calls
Queries == { <<>>, Q_ab_co, Q_long }

\* the values of str(uuid.uuid4())[:8]
TaskIds == { <<"a","1">>, <<"b","2">> }

\* the values of config.process_type
ProcessTypes == {"sequential", "hierarchical"}

\* what can happen before crew.kickoff(): the agents or the crew cannot be built
SetupOutcomes == {"ok", "agents_error", "crew_error"}

\* what the four loads after kickoff can do
LoadModes == {"normal", "read_error", "call_raises"}

\* the text a stage's agent produces
Output(name) == <<name>>

\* ResearchParameters(...) without a query: query is a required field
\* (Field(...)), the constructor raises a validation error and
\* conduct_research is not called
InvalidParameters ==
    /\ run.pc = "idle"
    /\ run' = [NoRun EXCEPT !.pc = "rejected", !.query = None,
                            !.outcome = "raised"]
    /\ UNCHANGED <<files, results, dialogVars, cls, ext, cache, sq>>

\* conduct_research up to crew.kickoff(): the tasks, the crew, the second
\* task_id
StartResearch ==
    /\ run.pc = "idle"
    /\ \E query \in Queries, process_type \in ProcessTypes,
          setup \in SetupOutcomes, write_id \in TaskIds, read_id \in TaskIds :
          run' = IF setup = "agents_error"
                 THEN [NoRun EXCEPT !.pc = "failed", !.query = query]
                 ELSE IF setup = "crew_error"
                 THEN [NoRun EXCEPT !.pc = "failed", !.query = query,
                                    !.process = ProcessOf(process_type),
                                    !.write_id = write_id,
                                    !.tasks = create_research_tasks(query, write_id)]
                 ELSE [NoRun EXCEPT !.pc = "kickoff", !.query = query,
                                    !.process = ProcessOf(process_type),
                                    !.write_id = write_id, !.read_id = read_id,
                                    !.tasks = create_research_tasks(query, write_id)]
    /\ UNCHANGED <<files, results, dialogVars, cls, ext, cache, sq>>

\* crew.kickoff(): the crew starts the next task of its list.  A crew runs its
\* tasks one at a time in the order of the list it was given, whichever
\* Process it was built with
StageStart ==
    /\ run.pc = "kickoff"
    /\ run.running = "none"
    /\ Len(run.completed) < Len(run.tasks)
    /\ \E task \in {run.tasks[Len(run.completed) + 1]} :
          run' = [run EXCEPT !.running = task.name,
                             !.started = Append(@, task.name)]
    /\ UNCHANGED <<files, results, dialogVars, cls, ext, cache, sq>>

\* crew.kickoff(): the running task ends.  Its agent's generation fails and
\* kickoff raises, or it produces the task's output; the agent follows the
\* instruction to save it with the cache tool, or does not
StageEnd ==
    /\ run.pc = "kickoff"
    /\ run.running # "none"
    /\ \E gen \in {"error", "ok"}, saves \in BOOLEAN :
       \E task \in {run.tasks[Len(run.completed) + 1]} :
          IF gen = "error"
          THEN /\ run' = [run EXCEPT !.pc = "failed", !.running = "none",
                                     !.stage_failed = TRUE]
               /\ files' = files
          ELSE /\ run' = [run EXCEPT
                            !.running = "none",
                            !.completed = Append(@, task.name),
                            !.result_raw = Output(task.name),
                            !.pc = IF Len(run.completed) + 1 = Len(run.tasks)
                                   THEN "load" ELSE "kickoff"]
               /\ files' = IF saves /\ task.save_key # None
                           THEN save_to_cache(files, task.save_key, Output(task.name))
                           ELSE files
    /\ UNCHANGED <<results, dialogVars, cls, ext, cache, sq>>

\* "Load results from cache"
LoadResults ==
    /\ run.pc = "load"
    /\ \E mode \in LoadModes :
       \E keys \in {load_keys(run.query, run.read_id)} :
          run' = [run EXCEPT
                    !.pc = "save",
                    !.loaded = load_results(files, keys, mode, run.result_raw),
                    !.missed = \E i \in 1..4 : sanitized_key(keys[i]) \notin DOMAIN files]
    /\ UNCHANGED <<files, results, dialogVars, cls, ext, cache, sq>>

\* "Save the full results": the file is written, or open/json.dump raises
SaveResults ==
    /\ run.pc = "save"
    /\ \E written \in BOOLEAN :
          IF written
          THEN /\ results' = Append(results,
                      [ path |-> results_path(run.read_id),
                        record |-> research_results(run.query, run.loaded,
                                                    run.result_raw, run.read_id) ])
               /\ run' = [run EXCEPT !.pc = "saved", !.saved = @ + 1]
          ELSE /\ results' = results
               /\ run' = [run EXCEPT !.pc = "failed"]
    /\ UNCHANGED <<files, dialogVars, cls, ext, cache, sq>>

\* return research_results
ReturnResults ==
    /\ run.pc = "saved"
    /\ run' = [run EXCEPT
                 !.pc = "done", !.outcome = "returned",
                 !.result = research_results(run.query, run.loaded,
                                             run.result_raw, run.read_id)]
    /\ UNCHANGED <<files, results, dialogVars, cls, ext, cache, sq>>

\* except Exception: "Return error response"
ReturnError ==
    /\ run.pc = "failed"
    /\ \E research_id \in TaskIds :
          run' = [run EXCEPT !.pc = "done", !.outcome = "returned",
                             !.result = error_response(run.query, research_id)]
    /\ UNCHANGED <<files, results, dialogVars, cls, ext, cache, sq>>

PipeInit ==
    /\ run = NoRun
    /\ files = NoFiles
    /\ results = <<>>
    /\ context = NewContext(<<"s","1">>)
    /\ prev = context
    /\ last = NoCall
    /\ cls = NoCls
    /\ ext = NoExt
    /\ cache = NoCache
    /\ sq = NoSq

PipeNext ==
    \/ InvalidParameters
    \/ StartResearch
    \/ StageStart
    \/ StageEnd
    \/ LoadResults
    \/ SaveResults
    \/ ReturnResults
    \/ ReturnError

SpecPipeline == PipeInit /\ [][PipeNext]_vars

(***************************************************************************)
(* One call of extract_sections: the report is drawn at ExtInit, Extract   *)
(* applies extract_sections                                                *)
(***************************************************************************)
R_title == <<"#"," ","T","i","t","l","e">>
R_overview == <<"#","#"," ","O","v","e","r","v","i","e","w">>
R_trends == <<"#","#"," ","T","r","e","n","d","s">>
R_trends_upper == <<"#","#"," ","T","R","E","N","D","S">>
R_line_a == <<"L","i","n","e"," ","A">>
R_line_b == <<" ","L","i","n","e"," ","B"," ">>
R_sub == <<"#","#","#"," ","S","u","b">>
R_nested == <<"#","#"," ","A"," ","#","#"," ","B">>
R_hashes == <<"#","#"," ","#","#","#"," ","#"," ","X">>

\* the lines of the modelled reports
ReportLines ==
    { R_title, R_overview, R_trends, R_trends_upper, R_line_a, R_line_b,
      R_sub, R_nested, R_hashes, <<>> }

\* bound on the number of lines of a drawn report
MaxLines == 4

\* '\n'.join(lines)
RECURSIVE JoinLines(_)
JoinLines(lines) ==
    IF Len(lines) = 0 THEN <<>>
    ELSE IF Len(lines) = 1 THEN lines[1]
    ELSE lines[1] \o <<"\n">> \o JoinLines(Tail(lines))

\* "# Title\n## Overview\nLine A\n## Trends\nLine B\nLine C\n"
ExampleReport ==
    <<"#"," ","T","i","t","l","e","\n","#","#"," ","O","v","e","r","v","i","e","w","\n","L","i","n","e"," ","A","\n","#","#"," ","T","r","e","n","d","s","\n","L","i","n","e"," ","B","\n","L","i","n","e"," ","C","\n">>

Reports ==
    { JoinLines(ls) : ls \in UNION { [1..n -> ReportLines] : n \in 0..MaxLines } }
    \cup { ExampleReport }

ExtInit ==
    /\ \E r \in Reports : ext = [NoExt EXCEPT !.report = r]
    /\ cache = NoCache
    /\ sq = NoSq
    /\ cls = NoCls
    /\ run = NoRun
    /\ files = NoFiles
    /\ results = <<>>
    /\ context = NewContext(<<"s","1">>)
    /\ prev = context
    /\ last = NoCall

Extract ==
    /\ ~ext.done
    /\ \E s \in {extract_sections(ext.report)} :
          ext' = [ext EXCEPT !.done = TRUE, !.sections = s]
    /\ UNCHANGED <<dialogVars, cls, pipeVars, cache, sq>>

ExtNext == Extract

SpecExtract == ExtInit /\ [][ExtNext]_vars

(***************************************************************************)
(* The calls of CacheTool.save_to_cache and CacheTool.load_from_cache on   *)
(* one data directory                                                      *)
(***************************************************************************)
K_upper_space == <<"A"," ","b">>
K_slash == <<"a","/","b">>
K_plain == <<"a","_","b">>
K_other == <<"X"," ","/","y">>
K_x == <<"x">>

\* the keys of the modelled calls
CacheKeys == { K_upper_space, K_slash, K_plain, K_other, K_x }

D_one == <<"o","n","e">>
D_lines == <<"a","\n","b">>
D_crlf == <<"a","\r","\n","b">>
D_cr == <<"a","\r","b">>

\* the texts of the modelled saves
CacheData == { D_one, D_lines, D_crlf, D_cr }

CacheInit ==
    /\ cache = NoCache
    /\ files = NoFiles
    /\ run = NoRun
    /\ results = <<>>
    /\ context = NewContext(<<"s","1">>)
    /\ prev = context
    /\ last = NoCall
    /\ cls = NoCls
    /\ ext = NoExt
    /\ sq = NoSq

\* save_to_cache(key, data): f.write(data) on a file opened with "w" on a
\* system whose line separator is "\n"
CacheSave ==
    /\ \E key \in CacheKeys, data \in CacheData :
          /\ files' = save_to_cache(files, key, data)
          /\ cache' = [ op |-> "save", key |-> key, data |-> data,
                        readable |-> TRUE, returned |-> <<>> ]
    /\ UNCHANGED <<run, results, dialogVars, cls, ext, sq>>

\* load_from_cache(key): the file is read, or reading it raises
CacheLoad ==
    /\ \E key \in CacheKeys, readable \in BOOLEAN :
          cache' = [ op |-> "load", key |-> key, data |-> <<>>,
                     readable |-> readable,
                     returned |-> load_from_cache(files, key, readable) ]
    /\ UNCHANGED <<files, run, results, dialogVars, cls, ext, sq>>

CacheNext ==
    \/ CacheSave
    \/ CacheLoad

SpecCache == CacheInit /\ [][CacheNext]_vars

(***************************************************************************)
(* streamlit_app.py: the research queue.  Every step is one run of the     *)
(* script; st.rerun() ends the run and starts the next one                 *)
(***************************************************************************)
\* the list of get_acknowledgment
acknowledgments ==
    << <<"I"," ","u","n","d","e","r","s","t","a","n","d"," ","y","o","u","'","d"," ","l","i","k","e"," ","t","o"," ","k","n","o","w"," ","a","b","o","u","t">>,
       <<"I","'","l","l"," ","r","e","s","e","a","r","c","h">>,
       <<"I","'","d"," ","b","e"," ","h","a","p","p","y"," ","t","o"," ","l","o","o","k"," ","i","n","t","o">>,
       <<"L","e","t"," ","m","e"," ","g","a","t","h","e","r"," ","i","n","f","o","r","m","a","t","i","o","n"," ","a","b","o","u","t">>,
       <<"I","'","l","l"," ","f","i","n","d"," ","t","h","e"," ","l","a","t","e","s","t"," ","i","n","s","i","g","h","t","s"," ","o","n">> >>

\* get_acknowledgment(): the values random.choice can return
get_acknowledgment == { acknowledgments[i] : i \in 1..Len(acknowledgments) }

\* f"I'll research '{topic}'"
AckPrefix(topic) == <<"I","'","l","l"," ","r","e","s","e","a","r","c","h"," ","'">> \o topic \o <<"'">>

\* f"{get_acknowledgment()} '{topic}' for {geographic_focus} over
\* {time_period}. This will take a moment..."; the text after the topic is
\* kept as one element
initial_response(phrase, topic) ==
    phrase \o <<" ", "'">> \o topic
           \o <<"'", " for {geographic_focus} over {time_period}. This will take a moment...">>

\* "Add initial response if not already present": the loop over the messages
AckExists(messages, topic) ==
    \E i \in 1..Len(messages) :
        /\ messages[i].role = "assistant"
        /\ StartsWith(messages[i].content, AckPrefix(topic))

\* the topics that get queued
QueueTopics == { <<"e","v">>, <<"a","i">> }

\* bound on len(st.session_state.messages) in the modelled sessions
MaxMessages == 4

QueueInit ==
    /\ sq = NoSq
    /\ cache = NoCache
    /\ files = NoFiles
    /\ run = NoRun
    /\ results = <<>>
    /\ context = NewContext(<<"s","1">>)
    /\ prev = context
    /\ last = NoCall
    /\ cls = NoCls
    /\ ext = NoExt

\* a run of the script that queues a topic: a quick-topic button or a
\* research request typed in the chat input
QueueResearch ==
    /\ sq.research_queue = None
    /\ \E topic \in QueueTopics :
          sq' = [sq EXCEPT !.research_queue = topic, !.appended = 0,
                           !.executed = 0]
    /\ UNCHANGED <<cache, files, run, results, dialogVars, cls, ext>>

\* "Handle direct research execution (from queue)", one run of the script:
\* the acknowledgment is appended and the script reruns, or the research is
\* executed and the queue cleared.  The loop of "Update the response" looks
\* for the text "'{topic}'", which no message holds, and changes no message
QueueHandler ==
    /\ sq.research_queue # None
    /\ IF ~AckExists(sq.messages, sq.research_queue)
       THEN /\ Len(sq.messages) < MaxMessages
            /\ \E phrase \in get_acknowledgment :
                  sq' = [sq EXCEPT
                           !.messages = Append(@,
                               [role |-> "assistant",
                                content |-> initial_response(phrase, sq.research_queue)]),
                           !.appended = @ + 1]
       ELSE sq' = [sq EXCEPT !.research_queue = None, !.executed = @ + 1]
    /\ UNCHANGED <<cache, files, run, results, dialogVars, cls, ext>>

QueueNext ==
    \/ QueueResearch
    \/ QueueHandler

SpecQueue == QueueInit /\ [][QueueNext]_vars

(***************************************************************************)
(* Properties of the conversation (Spec)                                   *)
(***************************************************************************)
\* the intent is the reset command
IsResetIntent(intent) ==
    /\ intent.type = INTENT_COMMAND
    /\ IsDict(intent.parameters)
    /\ Get(intent.parameters, "command", "None") = "reset"

\* C1: every call of process_message whose intent is not the reset command
\* leaves context.history two entries longer: the entries it had, then the
\* user's utterance, then the assistant's reply, whatever the generation
\* capability does.
C1_HistoryGrowsByTwo ==
    (last.op = "process_message" /\ ~IsResetIntent(last.intent)) =>
        /\ Len(context.history) = Len(prev.history) + 2
        /\ SubSeq(context.history, 1, Len(prev.history)) = prev.history
        /\ context.history[Len(prev.history) + 1] =
              [role |-> "user", content |-> Utterance(last.message)]
        /\ context.history[Len(prev.history) + 2] =
              [role |-> "assistant", content |-> last.response]

\* C2 as stated: after a turn whose intent is the reset command the context
\* is a freshly constructed DialogContext with the session_id it had.
C2_ResetGivesFreshContext ==
    (last.op = "process_message" /\ IsResetIntent(last.intent)) =>
        context = NewContext(prev.session_id)

\* C2: after a turn whose intent is the reset command the context has the
\* session_id it had, current_topic, current_research_id, last_intent and
\* conversation_state are those of a freshly constructed DialogContext, and
\* history holds one entry, the assistant's reply to the reset.
C2_ResetKeepsSessionAndReply ==
    (last.op = "process_message" /\ IsResetIntent(last.intent)) =>
        /\ last.status = "returned"
        /\ context = add_message(NewContext(prev.session_id), "assistant",
                                 Content("reset_ack", <<>>))

\* a reset turn on a context that had a history, a topic and a state other
\* than the initial one
C2_ResetAfterResearch ==
    /\ last.op = "process_message"
    /\ IsResetIntent(last.intent)
    /\ Len(prev.history) >= 2
    /\ prev.current_topic # None
    /\ prev.conversation_state # NewContext(prev.session_id).conversation_state
    /\ context.session_id = prev.session_id

(***************************************************************************)
(* Properties of conduct_research (SpecPipeline)                           *)
(***************************************************************************)
RunReturned(kind) == run.pc = "done" /\ kind \in DOMAIN run.result

\* C3: when the generation of a stage fails, conduct_research does not
\* raise; it returns a result with an error field, without a final_report
\* key, whose metadata has status "error", research_id, timestamp and
\* elapsed_time.
C3_StageFailureGivesErrorResult ==
    /\ run.stage_failed => run.pc \in {"failed", "done"}
    /\ (run.stage_failed /\ run.pc = "done") =>
          /\ run.outcome = "returned"
          /\ "error" \in DOMAIN run.result
          /\ "final_report" \notin DOMAIN run.result
          /\ {"status", "research_id", "timestamp", "elapsed_time"}
                \subseteq DOMAIN run.result.metadata
          /\ run.result.metadata.status = "error"

\* a call that returned after its second stage failed
C3_SecondStageFailed ==
    /\ run.pc = "done"
    /\ run.stage_failed
    /\ run.started = <<"parameter_extraction_task", "research_task">>
    /\ run.completed = <<"parameter_extraction_task">>

instructed_keys(tasks) ==
    { tasks[i].save_key : i \in { j \in 1..Len(tasks) : tasks[j].save_key # None } }

\* the keys conduct_research loads
read_keys(query, task_id) ==
    { load_keys(query, task_id)[i] : i \in 1..4 }

\* C5: in one call the keys the stages are told to write, the keys
\* conduct_research reads after the last stage and the research_id it
\* returns come from one identifier: the keys read are the keys written.
C5_SingleRunIdentifier ==
    RunReturned("final_report") =>
        /\ read_keys(run.query, run.result.metadata.research_id)
              = instructed_keys(run.tasks)
        /\ run.read_id = run.write_id

\* C6: when all stages succeed and the cache has no entry for a key that
\* conduct_research reads, the call returns a success-shaped result whose
\* raw_data, analysis, verified and final_report are the output of the last
\* generation call, never the not-found text.
C6_CacheMissFallsBack ==
    (run.pc = "done" /\ Len(run.completed) = 5 /\ run.missed
        /\ run.outcome = "returned" /\ "error" \notin DOMAIN run.result) =>
        /\ "final_report" \in DOMAIN run.result
        /\ run.result.final_report = run.result_raw
        /\ run.result.raw_data = run.result_raw
        /\ run.result.analysis = run.result_raw
        /\ run.result.verified = run.result_raw
        /\ run.result.final_report # NotFoundText

\* the order refine, research, analyze, verify, synthesize
StageOrder ==
    << "parameter_extraction_task", "research_task", "analysis_task",
       "verification_task", "content_task" >>

Names(s) == { s[i] : i \in 1..Len(s) }

\* the tasks a task names in context=[...]
DependsOn(name) ==
    UNION { run.tasks[i].context : i \in { j \in 1..Len(run.tasks) : run.tasks[j].name = name } }

\* C7: for every process_type the stages start in the order refine,
\* research, analyze, verify, synthesize, one at a time, and a stage starts
\* only when every stage it depends on has completed with its output.
C7_StagesInDependencyOrder ==
    /\ run.started = SubSeq(StageOrder, 1, Len(run.started))
    /\ run.completed = SubSeq(run.started, 1, Len(run.completed))
    /\ Len(run.started) - Len(run.completed) \in {0, 1}
    /\ run.running # "none" =>
          /\ run.running = run.started[Len(run.started)]
          /\ DependsOn(run.running) \subseteq Names(run.completed)
          /\ Names(run.completed) = Names(run.started) \ {run.running}
    /\ Len(run.completed) > 0 => run.result_raw # None

\* the last stage running in a hierarchical crew
C7_LastStageStarted ==
    /\ run.process = "hierarchical"
    /\ run.running = "content_task"
    /\ Len(run.completed) = 4

(***************************************************************************)
(* Properties of classify_intent (SpecClassify)                            *)
(***************************************************************************)
\* C8: the type of every intent classify_intent returns is one of the nine
\* intent types, whatever text the generation capability returns.
C8_IntentTypeEnumerated ==
    cls.done => cls.intent.type \in IntentTypes

\* the conditions of the rules of classify_intent, in the order system
\* command (reset, help), greeting, research request, follow-up keyword,
\* comparison, clarification, feedback, small talk, topic continuation,
\* model fallback, unknown
RuleHolds(i, message, ctx) ==
    CASE i = 1  -> Facts[message].reset
      [] i = 2  -> Facts[message].help
      [] i = 3  -> Facts[message].greeting
      [] i = 4  -> Facts[message].research
      [] i = 5  -> Truthy(ctx.current_topic) /\ Facts[message].followup
      [] i = 6  -> Facts[message].comparison
      [] i = 7  -> Facts[message].clarification
      [] i = 8  -> Facts[message].feedback
      [] i = 9  -> Facts[message].small_talk
      [] i = 10 -> Truthy(ctx.current_topic)
      [] i = 11 -> Len(ctx.history) > 0
      [] i = 12 -> TRUE

RuleType ==
    << INTENT_COMMAND, INTENT_COMMAND, INTENT_GREETING, INTENT_RESEARCH,
       INTENT_FOLLOWUP, INTENT_COMPARISON, INTENT_CLARIFICATION,
       INTENT_FEEDBACK, INTENT_SMALLTALK, INTENT_FOLLOWUP, "model",
       INTENT_UNKNOWN >>

RulesHolding(message, ctx) == { i \in 1..Len(RuleType) : RuleHolds(i, message, ctx) }

EarliestRule(message, ctx) ==
    CHOOSE i \in RulesHolding(message, ctx) :
        \A j \in RulesHolding(message, ctx) : i <= j

\* C9: classify_intent returns the intent of the earliest rule whose
\* condition holds: an utterance that satisfies several rules is never
\* classified by a later one.
C9_EarliestRuleWins ==
    cls.done =>
        LET i == EarliestRule(cls.message, cls.context) IN
        IF RuleType[i] = "model"
        THEN /\ cls.llm_called
             /\ cls.intent = classify_with_llm(cls.message, cls.context, cls.gen)
        ELSE /\ ~cls.llm_called
             /\ cls.intent.type = RuleType[i]
             /\ i = 1 => cls.intent.parameters = [command |-> "reset"]
             /\ i = 2 => cls.intent.parameters = [command |-> "help"]

\* an utterance that satisfies a fixed rule and two later ones
C9_SeveralRulesHold ==
    /\ cls.done
    /\ Cardinality(RulesHolding(cls.message, cls.context) \cap 1..10) >= 3
    /\ EarliestRule(cls.message, cls.context) \in 3..8

\* C10: when an utterance matches one of the fixed rules (system command to
\* topic continuation), classify_intent does not call the generation
\* capability, and the intent it returns is the same whatever the
\* generation capability would return.
C10_FixedRulesIgnoreModel ==
    (cls.done /\ RulesHolding(cls.message, cls.context) \cap 1..10 # {}) =>
        /\ ~cls.llm_called
        /\ \A g \in GenOutcomes :
              /\ ~classify_intent(cls.message, cls.context, g).llm_called
              /\ classify_intent(cls.message, cls.context, g).intent = cls.intent

\* an utterance that matches only the small-talk rule, in a context with a
\* history, while the generation capability would return a research request
C10_RuleMatchedWithHistory ==
    /\ cls.done
    /\ RulesHolding(cls.message, cls.context) \cap 1..10 = {9}
    /\ Len(cls.context.history) > 0
    /\ cls.gen.status = "ok"
    /\ classify_with_llm(cls.message, cls.context, cls.gen).type = INTENT_RESEARCH
    /\ cls.intent.type = INTENT_SMALLTALK

(***************************************************************************)
(* Properties of the rules of classify_intent (SpecClassify)               *)
(***************************************************************************)
\* the utterances that have a reset keyword as a substring of their
\* trimmed, lower-cased text
HasResetSubstring ==
    [m \in Utterances |-> ContainsAny(reset_keywords, MessageLower(m))]

\* the utterances in which a reset keyword stands between word boundaries
HasResetWord ==
    [m \in Utterances |-> WordSearch(reset_keywords, MessageLower(m))]

IsResetResult(c) ==
    /\ c.intent = DialogIntent(INTENT_COMMAND, [command |-> "reset"])
    /\ ~c.llm_called

\* C11 as stated: every utterance that contains a reset keyword is
\* classified as the system command reset, whatever the context and the
\* other keywords of the utterance.
C11_ResetKeywordContained ==
    (cls.done /\ HasResetSubstring[cls.message]) => IsResetResult(cls)

\* C11: every utterance in which a reset keyword ("reset", "start over",
\* "clear", "new conversation") occurs between word boundaries, in any
\* letter case, is classified as the system command reset, whatever the
\* context and the other keywords of the utterance.
C11_ResetWordGivesReset ==
    (cls.done /\ HasResetWord[cls.message]) => IsResetResult(cls)

\* an utterance with a reset word and a research keyword, classified in a
\* context that has a topic and a history
C11_ResetAmongOtherKeywords ==
    /\ cls.done
    /\ HasResetWord[cls.message]
    /\ Facts[cls.message].research
    /\ Truthy(cls.context.current_topic)
    /\ Len(cls.context.history) > 0
    /\ IsResetResult(cls)

\* the first keyword of research_keywords found in the lower-cased utterance
MatchedResearchKeyword(message) ==
    research_keywords[
        CHOOSE i \in 1..Len(research_keywords) :
            /\ Contains(research_keywords[i], MessageLower(message))
            /\ \A j \in 1..(i - 1) :
                  ~Contains(research_keywords[j], MessageLower(message))]

\* s without the first occurrence of kw between word boundaries (in any
\* letter case) and the spaces after it
RemoveFirstWord(kw, s) ==
    LET at == {i \in 1..Len(s) : WordMatchAt(kw, Lower(s), i)}
    IN  IF at = {} THEN s
        ELSE LET i == CHOOSE a \in at : \A b \in at : a <= b
             IN  SubSeq(s, 1, i - 1) \o SubSeq(s, SkipSpaces(s, i + Len(kw)), Len(s))

FirstOccurrenceTopic ==
    [m \in Utterances |->
        IF Facts[m].research
        THEN Strip(RemoveFirstWord(MatchedResearchKeyword(m), m))
        ELSE <<>>]

\* C12: for an utterance classified as a research request by the research
\* rule, parameters.topic is the utterance without the first occurrence
\* between word boundaries of the matched research keyword, trimmed, and
\* parameters.original_query is the utterance.
C12_TopicDropsFirstOccurrence ==
    (cls.done /\ ~cls.llm_called /\ cls.intent.type = INTENT_RESEARCH) =>
        /\ cls.intent.parameters.original_query = cls.message
        /\ cls.intent.parameters.topic = FirstOccurrenceTopic[cls.message]

\* C13: the rules of classify_intent return a follow-up question (by the
\* follow-up keyword or trailing "?" rule, or by the topic continuation
\* rule) only when context.current_topic is set, and then with parameters
\* topic = context.current_topic, question = the utterance and
\* related_to = context.current_research_id.
C13_FollowupNeedsTopic ==
    (cls.done /\ ~cls.llm_called /\ cls.intent.type = INTENT_FOLLOWUP) =>
        /\ cls.context.current_topic # None
        /\ Truthy(cls.context.current_topic)
        /\ cls.intent.parameters =
              [ topic |-> cls.context.current_topic,
                question |-> cls.message,
                related_to |-> cls.context.current_research_id ]

\* a long utterance without any keyword, classified as a follow-up by the
\* topic continuation rule in a context with a topic and a research id
C13_TopicContinuation ==
    /\ cls.done
    /\ ~cls.llm_called
    /\ cls.intent.type = INTENT_FOLLOWUP
    /\ ~Facts[cls.message].followup
    /\ ~Facts[cls.message].small_talk
    /\ cls.context.current_research_id # None
    /\ cls.intent.parameters.related_to = cls.context.current_research_id

\* C14: in the model fallback, a model output without parseable JSON gives
\* a research request if the raw text contains "research", otherwise a
\* follow-up question if it contains "followup", otherwise unknown; a
\* failure of the generation or JSON that is not an object gives unknown.
\* The fallback always returns an intent.
C14_FallbackSniffsThenUnknown ==
    (cls.done /\ cls.llm_called) =>
        /\ (cls.gen.status = "ok" /\ cls.gen.raw.json = "invalid") =>
              cls.intent =
                 IF cls.gen.raw.has_research
                 THEN DialogIntent(INTENT_RESEARCH, [topic |-> cls.message])
                 ELSE IF cls.gen.raw.has_followup
                 THEN DialogIntent(INTENT_FOLLOWUP, [question |-> cls.message])
                 ELSE DialogIntent(INTENT_UNKNOWN, [message |-> cls.message])
        /\ (cls.gen.status # "ok" \/ cls.gen.raw.json = "nonobject") =>
              cls.intent = DialogIntent(INTENT_UNKNOWN, [message |-> cls.message])

\* a model output that is not JSON and contains both "research" and
\* "followup"
C14_BothWordsInRawText ==
    /\ cls.done
    /\ cls.llm_called
    /\ cls.gen.status = "ok"
    /\ cls.gen.raw.json = "invalid"
    /\ cls.gen.raw.has_research
    /\ cls.gen.raw.has_followup
    /\ cls.intent.type = INTENT_RESEARCH

(***************************************************************************)
(* Properties of the turns of a conversation (Spec)                        *)
(***************************************************************************)
ConversationStates == {"greeting", "researching", "discussing"}

\* C15: after a call of process_message conversation_state is "greeting"
\* for a greeting, "researching" for a research request, "discussing" for a
\* follow-up question, and what it was before the call for every other
\* intent except the reset command; it is always one of the three.
C15_ConversationStateFollowsIntent ==
    /\ context.conversation_state \in ConversationStates
    /\ last.op = "process_message" =>
          /\ last.intent.type = INTENT_GREETING =>
                context.conversation_state = "greeting"
          /\ last.intent.type = INTENT_RESEARCH =>
                context.conversation_state = "researching"
          /\ last.intent.type = INTENT_FOLLOWUP =>
                context.conversation_state = "discussing"
          /\ ( /\ last.intent.type \notin
                     {INTENT_GREETING, INTENT_RESEARCH, INTENT_FOLLOWUP}
               /\ ~IsResetIntent(last.intent) ) =>
                context.conversation_state = prev.conversation_state

\* a comparison request in a conversation that was "discussing"
C15_ComparisonWhileDiscussing ==
    /\ last.op = "process_message"
    /\ last.status = "returned"
    /\ last.intent.type = INTENT_COMPARISON
    /\ prev.conversation_state = "discussing"
    /\ context.conversation_state = "discussing"

\* C16 as stated: after every call of process_message context.last_intent
\* is the intent of that call, for every intent type.
C16_LastIntentIsTurnIntent ==
    last.op = "process_message" => context.last_intent = last.intent

\* C16: after every call of process_message, returning or raising, whose
\* intent is not the reset command, context.last_intent is the intent
\* classify_intent gave for that call; after a reset command it is None.
C16_LastIntentExceptReset ==
    last.op = "process_message" =>
        context.last_intent =
            IF IsResetIntent(last.intent) THEN NoIntent ELSE last.intent

\* a call that raised after classify_intent gave an intent from the model
\* fallback
C16_RaisedAfterClassification ==
    /\ last.op = "process_message"
    /\ last.status = "raised"
    /\ last.llm_called
    /\ context.last_intent = last.intent
    /\ prev.last_intent # last.intent

\* C17: process_message does not raise because a response generator
\* failed: when obtaining the dialog agent, building the task or running it
\* fails in a generator that uses the generation capability, the generator
\* returns its fallback text and the turn ends with that text as the reply.
C17_GeneratorFailureGivesFallback ==
    ( /\ last.op = "process_message"
      /\ last.intent.type \in {INTENT_RESEARCH, INTENT_COMPARISON, INTENT_FOLLOWUP}
      /\ IsDict(last.intent.parameters)
      /\ last.gen_status # "ok" ) =>
        /\ last.status = "returned"
        /\ last.response.kind \in {"research_fallback", "followup_fallback"}
        /\ context.history[Len(context.history)] =
              [role |-> "assistant", content |-> last.response]

(***************************************************************************)
(* Properties of the parameters of a research (SpecPipeline)               *)
(***************************************************************************)
\* C18: a research asked for with an empty or a missing query fails with a
\* validation error before a task is built and before the generation
\* capability is called.
C18_EmptyQueryRejected ==
    (run.pc # "idle" /\ run.query \in {<<>>, None}) =>
        /\ run.pc = "rejected"
        /\ run.outcome = "raised"
        /\ run.tasks = <<>>
        /\ run.started = <<>>
(***************************************************************************)
(* C19, C20: the sections of a report                                      *)
(***************************************************************************)
\* the lines of the report as the loop sees them: stripped, blank ones left out
ReportBody(report) ==
    LET lines == SplitLines(report)
    IN  SelectSeq([i \in 1..Len(lines) |-> Strip(lines[i])],
                  LAMBDA l : l # <<>>)

IsHeading(line) == StartsWith(line, H2)
IsContent(line) == ~StartsWith(line, H1) /\ ~StartsWith(line, H2)
HeadingName(line) == Lower(RemoveAll(line, H2))

HeadingsOf(body) == {j \in 1..Len(body) : IsHeading(body[j])}

\* the content lines that come after position j (0: the start of the report)
\* and before the next heading
ContentAfter(body, j) ==
    {i \in (j + 1)..Len(body) :
        /\ IsContent(body[i])
        /\ \A k \in (j + 1)..(i - 1) : ~IsHeading(body[k])}

EveryHeadingHasContent(body) ==
    \A j \in HeadingsOf(body) : ContentAfter(body, j) # {}

\* the names of a sequence of names, each kept where it comes first
RECURSIVE FirstSeen(_, _, _)
FirstSeen(names, i, acc) ==
    IF i > Len(names) THEN acc
    ELSE FirstSeen(names, i + 1,
                   IF \E k \in 1..Len(acc) : acc[k] = names[i]
                   THEN acc ELSE Append(acc, names[i]))

\* the heading lines of the body, in order
HeadingLines(body) == SelectSeq(body, IsHeading)

\* the names of the sections the body opens when every heading has content:
\* "overview" for content before the first heading, then the headings
OpenedNames(body) ==
    LET hs == HeadingLines(body)
    IN  (IF ContentAfter(body, 0) # {} THEN <<T_overview>> ELSE <<>>)
        \o [i \in 1..Len(hs) |-> HeadingName(hs[i])]

SectionNames == [i \in 1..Len(ext.sections) |-> ext.sections[i].name]

ExampleSections ==
    << [name |-> T_overview, content |-> <<R_line_a>>],
       [name |-> <<"t","r","e","n","d","s">>,
        content |-> << <<"L","i","n","e"," ","B">>, <<"L","i","n","e"," ","C">> >>] >>

\* C19 as stated: for a report with N distinct "## " headings, each followed
\* by at least one content line, extract_sections returns exactly N entries,
\* each with at least one content line, keyed by the lower-cased heading
\* text, in the order the headings first appear
C19_OneEntryPerDistinctHeading ==
    ext.done =>
        \E body \in {ReportBody(ext.report)} :
            EveryHeadingHasContent(body) =>
                \E hs \in {HeadingLines(body)} :
                    /\ Len(ext.sections) = Cardinality({hs[i] : i \in 1..Len(hs)})
                    /\ SectionNames =
                          FirstSeen([i \in 1..Len(hs) |->
                                        Lower(SubSeq(hs[i], Len(H2) + 1, Len(hs[i])))],
                                    1, <<>>)
                    /\ \A i \in 1..Len(ext.sections) :
                          Len(ext.sections[i].content) >= 1

\* C19, amended: for a report whose "## " headings are each followed by at
\* least one content line, extract_sections returns one entry per distinct
\* section name, each with at least one content line, in the order the names
\* first appear; the section names are "overview" when content comes before
\* the first heading, and each heading line lower-cased with every "## "
\* taken out; so N headings whose names differ give exactly N entries when no
\* content comes before the first of them, and the example report gives
\* overview:[Line A], trends:[Line B, Line C]
C19_OneEntryPerSectionName ==
    ext.done =>
        \E body \in {ReportBody(ext.report)} :
            /\ EveryHeadingHasContent(body) =>
                  \E names \in {OpenedNames(body)} :
                      /\ SectionNames = FirstSeen(names, 1, <<>>)
                      /\ \A i \in 1..Len(ext.sections) :
                            Len(ext.sections[i].content) >= 1
                      /\ (\A i, k \in 1..Len(names) : names[i] = names[k] => i = k)
                            => Len(ext.sections) = Len(names)
                      /\ ( /\ ContentAfter(body, 0) = {}
                           /\ Cardinality({names[i] : i \in 1..Len(names)})
                                 = Cardinality(HeadingsOf(body)) )
                            => Len(ext.sections) = Cardinality(HeadingsOf(body))
            /\ ext.report = ExampleReport => ext.sections = ExampleSections

\* a report with content before its first heading, and a heading followed
\* by content, has been extracted
C19_ContentBeforeFirstHeading ==
    /\ ext.done
    /\ ext.report = JoinLines(<<R_line_a, R_trends, R_line_b>>)
    /\ EveryHeadingHasContent(ReportBody(ext.report))
    /\ Len(ext.sections) = 2

\* a content line as current_content holds it
ContentLine(line) ==
    IF StartsWith(line, H3) THEN Bold \o RemoveAll(line, H3) \o Bold ELSE line

\* the name of the section opened at position j (0: the start of the report)
NameAt(body, j) == IF j = 0 THEN T_overview ELSE HeadingName(body[j])

\* the content collected for the section opened at position j
ContentAt(body, j) ==
    LET at == SelectSeq([k \in 1..(Len(body) - j) |-> j + k],
                        LAMBDA i : i \in ContentAfter(body, j))
    IN  [k \in 1..Len(at) |-> ContentLine(body[at[k]])]

\* C20: when the same section name is opened twice in one report, the later
\* section does not overwrite the earlier one: every section that collected
\* content has an entry with that content, neither merged nor replaced
C20_EarlierSectionKept ==
    ext.done =>
        \E body \in {ReportBody(ext.report)} :
            \A j \in {0} \cup HeadingsOf(body) :
                ContentAfter(body, j) # {} =>
                    \E e \in 1..Len(ext.sections) :
                        /\ ext.sections[e].name = NameAt(body, j)
                        /\ ext.sections[e].content = ContentAt(body, j)

\* the remainder of a heading line after its leading "## ", lower-cased
HeadingRemainder(line) == Lower(SubSeq(line, Len(H2) + 1, Len(line)))

\* C21: for every line that starts with "## ", the section it opens is named
\* by exactly the remainder of that line after the leading "## ", lower-cased,
\* also when the remainder contains further "## " text: every heading that
\* collected content has an entry under that name
C21_SectionNamedByRemainder ==
    ext.done =>
        \E body \in {ReportBody(ext.report)} :
            \A j \in HeadingsOf(body) :
                ContentAfter(body, j) # {} =>
                    \E e \in 1..Len(ext.sections) :
                        ext.sections[e].name = HeadingRemainder(body[j])

\* a section map written back as a report: "## <name>" and then the content
\* lines of the section, for each section in order
Reserialize(sections) ==
    JoinLines([i \in 1..Len(sections) |->
                  JoinLines(<<H2 \o sections[i].name>> \o sections[i].content)])

NamesOf(sections) == [i \in 1..Len(sections) |-> sections[i].name]

\* C22: extracting the re-serialized sections of a report gives the same
\* section names in the same order, and the same number of sections
C22_ReextractKeepsShape ==
    ext.done =>
        \E again \in {extract_sections(Reserialize(ext.sections))} :
            /\ Len(again) = Len(ext.sections)
            /\ NamesOf(again) = NamesOf(ext.sections)

\* the content lines of the body as current_content holds them, in order
AllContent(body) ==
    LET lines == SelectSeq(body, IsContent)
    IN  [k \in 1..Len(lines) |-> ContentLine(lines[k])]

\* the content lines of the sections, one section after the other
RECURSIVE Flatten(_)
Flatten(sections) ==
    IF Len(sections) = 0 THEN <<>>
    ELSE sections[1].content \o Flatten(Tail(sections))

\* the number of times x is in the sequence s
Count(s, x) == Cardinality({i \in 1..Len(s) : s[i] = x})

\* C28: extract_sections loses no content: every non-blank line of the
\* report that is not an H1 or H2 line is in the result once, the H3 lines as
\* "**<text>**" and the others as their text, and the lines of a section are
\* in the order of the report
C28_NoContentLost ==
    ext.done =>
        \E body \in {ReportBody(ext.report)} :
        \E all \in {AllContent(body)}, got \in {Flatten(ext.sections)} :
            /\ Len(got) = Len(all)
            /\ \A i \in 1..Len(all) : Count(got, all[i]) = Count(all, all[i])
            /\ \A j \in {0} \cup HeadingsOf(body) :
                  ContentAfter(body, j) # {} =>
                      \E e \in 1..Len(ext.sections) :
                          \E at \in 1..(Len(ext.sections[e].content)
                                        - Len(ContentAt(body, j)) + 1) :
                              SubSeq(ext.sections[e].content, at,
                                     at + Len(ContentAt(body, j)) - 1)
                                 = ContentAt(body, j)
(***************************************************************************)
(* C23: the cache store                                                    *)
(***************************************************************************)
\* C23: load_from_cache(k) returns the text of the latest save_to_cache
\* whose key has the sanitized form of k, and no storage identifier holds a
\* space or a path separator
C23_LoadReturnsLastSave ==
    /\ (cache.op = "load" /\ cache.readable
           /\ sanitized_key(cache.key) \in DOMAIN files)
          => cache.returned = files[sanitized_key(cache.key)]
    /\ \A k \in DOMAIN files : \A i \in 1..Len(k) : k[i] \notin {" ", "/"}

(***************************************************************************)
(* C24: the context of the stages                                          *)
(***************************************************************************)
\* the task of the run with the given name
TaskNamed(name) ==
    CHOOSE t \in {run.tasks[i] : i \in 1..Len(run.tasks)} : t.name = name

\* the names of the tasks ahead of position i in the task list
TasksBefore(i) == {run.tasks[k].name : k \in 1..(i - 1)}

\* C24 as stated: each of the stages 2-5 has as context the outputs of all
\* the stages before it in the chain
C24_ContextIsAllPriorStages ==
    \A i \in 2..Len(run.tasks) : run.tasks[i].context = TasksBefore(i)

\* C24, amended: research gets refine; analysis gets research; verification
\* gets research and analysis; synthesis gets research, analysis and
\* verification together.  The output of refine is context of the research
\* stage only; every other stage gets all the stages between research and
\* itself, and no stage gets a stage that comes after it
C24_ContextIsPriorStagesFromResearch ==
    run.tasks # <<>> =>
        /\ Len(run.tasks) = 5
        /\ TaskNamed("research_task").context = {"parameter_extraction_task"}
        /\ TaskNamed("analysis_task").context = {"research_task"}
        /\ TaskNamed("verification_task").context =
              {"research_task", "analysis_task"}
        /\ TaskNamed("content_task").context =
              {"research_task", "analysis_task", "verification_task"}
        /\ \A i \in 3..Len(run.tasks) :
              run.tasks[i].context = TasksBefore(i) \ {run.tasks[1].name}
        /\ \A i \in 1..Len(run.tasks) : run.tasks[i].context \subseteq TasksBefore(i)

\* the synthesis stage has ended in a run whose stages all produced output
C24_SynthesisEnded ==
    /\ run.pc = "load"
    /\ Len(run.tasks) = 5
    /\ run.completed[5] = "content_task"

(***************************************************************************)
(* C25: the response generators and the context                            *)
(***************************************************************************)
\* C25: no response generator modifies the dialog context: after a turn that
\* is not a reset, current_topic is the topic parameter of a ResearchRequest
\* and is unchanged by every other intent, ComparisonRequest included;
\* current_research_id is unchanged, last_intent is the intent of the turn,
\* and the history has grown by the user message and, when a response was
\* returned, by the response, whether the generation succeeds or fails
C25_GeneratorsLeaveContext ==
    (last.op = "process_message" /\ ~IsResetIntent(last.intent)
        /\ IsDict(last.intent.parameters)) =>
        /\ context.current_topic =
              IF last.intent.type = INTENT_RESEARCH
              THEN Get(last.intent.parameters, "topic", None)
              ELSE prev.current_topic
        /\ context.current_research_id = prev.current_research_id
        /\ context.last_intent = last.intent
        /\ Len(context.history) =
              Len(prev.history) + (IF last.status = "returned" THEN 2 ELSE 1)

(***************************************************************************)
(* C26: the default of classify_intent under process_message               *)
(***************************************************************************)
\* the context classify_intent is given by the last call of process_message
ClassifiedContext == [prev EXCEPT !.history = Append(@, [role |-> "user",
                                      content |-> Utterance(last.message)])]

\* the rules of classify_intent ahead of the model fallback
FixedRules == { i \in 1..Len(RuleType) : \A k \in 1..i : RuleType[k] # "model" }

\* C26: through process_message the default of classify_intent is not
\* reached: the history holds the user message when classify_intent runs, so
\* every utterance that matches none of the fixed rules goes to the model
\* fallback, and an Unknown intent comes from that fallback only
C26_DefaultUnreachable ==
    last.op = "process_message" =>
        /\ Len(ClassifiedContext.history) > 0
        /\ RulesHolding(last.message, ClassifiedContext) \cap FixedRules = {}
              => last.llm_called
        /\ last.intent.type = INTENT_UNKNOWN => last.llm_called
        /\ last.llm_called =>
              last.intent = classify_with_llm(last.message,
                                              ClassifiedContext, last.cls_gen)

\* the first call on a context with an empty history gave Unknown
C26_UnknownOnFirstCall ==
    /\ last.op = "process_message"
    /\ prev.history = <<>>
    /\ last.intent.type = INTENT_UNKNOWN

(***************************************************************************)
(* C27: follow-ups after a reset                                           *)
(***************************************************************************)
TopicUnset(ctx) == ctx.current_topic \in {None, <<>>}

\* C27: a reset turn leaves current_topic unset; while it is unset, no turn
\* is classified as a follow-up by the rules of classify_intent (a follow-up
\* can come from the model fallback only), and current_topic stays unset
\* over every step other than a turn classified as a research or comparison
\* request and the recording of its research
C27_NoFollowupUntilResearch ==
    [][ /\ (last'.op = "process_message" /\ IsResetIntent(last'.intent))
              => TopicUnset(context')
        /\ last'.op = "app_reset" => TopicUnset(context')
        /\ (TopicUnset(context) /\ last'.op = "process_message") =>
              /\ last'.intent.type = INTENT_FOLLOWUP => last'.llm_called
              /\ last'.intent.type \notin {INTENT_RESEARCH, INTENT_COMPARISON}
                    => TopicUnset(context')
        /\ (TopicUnset(context) /\ last'.op = "app_greeting")
              => TopicUnset(context')
        /\ last'.op = "app_research_done"
              => last.intent.type \in {INTENT_RESEARCH, INTENT_COMPARISON}
      ]_vars

\* the turn after a reset turn had a follow-up keyword and was not
\* classified as a follow-up
C27_FollowupKeywordAfterReset ==
    /\ last.op = "process_message"
    /\ prev = add_message(NewContext(prev.session_id), "assistant",
                          Content("reset_ack", <<>>))
    /\ Facts[last.message].followup
    /\ last.intent.type # INTENT_FOLLOWUP
    /\ TopicUnset(context)

(***************************************************************************)
(* C29: the sentiment of a feedback                                        *)
(***************************************************************************)
\* the places where re.search can match a feedback phrase in s: position and
\* number of the phrase in feedback_keywords
FeedbackMatches(s) ==
    { <<i, k>> \in (1..Len(s)) \X (1..Len(feedback_keywords)) :
         WordMatchAt(feedback_keywords[k], s, i) }

\* the phrase re.search matches: leftmost, and the first alternative there
MatchedFeedbackPhrase ==
    [ m \in Utterances |->
        LET ms == FeedbackMatches(MessageLower(m))
        IN  IF ms = {} THEN <<>>
            ELSE feedback_keywords[
                    (CHOOSE p \in ms : \A q \in ms :
                        p[1] < q[1] \/ (p[1] = q[1] /\ p[2] <= q[2]))[2]] ]

negative_phrases ==
    { <<"n","o","t"," ","h","e","l","p","f","u","l">>,
      <<"u","s","e","l","e","s","s">>,
      <<"w","r","o","n","g">> }

\* C29: a feedback intent of the feedback rule has sentiment "negative" when
\* the phrase the rule matched is "not helpful", "useless" or "wrong", and
\* "positive" when it is one of the other phrases
C29_SentimentFollowsMatchedPhrase ==
    (cls.done /\ ~cls.llm_called /\ cls.intent.type = INTENT_FEEDBACK) =>
        cls.intent.parameters.sentiment =
            IF MatchedFeedbackPhrase[cls.message] \in negative_phrases
            THEN "negative" ELSE "positive"

(***************************************************************************)
(* C30: the research queue of streamlit_app.py                             *)
(***************************************************************************)
\* C30: once research_queue is set to a topic, at most one acknowledgment
\* message is appended for it, whatever phrase is drawn, the research is
\* executed once, and research_queue is None after it
C30_OneAcknowledgmentPerQueuedTopic ==
    /\ sq.appended <= 1
    /\ sq.executed <= 1
    /\ sq.executed = 1 => sq.research_queue = None
    /\ (sq.research_queue # None /\ sq.appended = 1)
          => AckExists(sq.messages, sq.research_queue)
====
